---- MODULE Spec2Model ----
(***************************************************************************)
(* A model of FALocalRepo's command line front ends:                       *)
(*   - falocalrepo/console.py: the argv dispatcher console() with its      *)
(*     config / download / database sub-dispatchers, the option parsers    *)
(*     parse_args, parameters and parameters_multi;                        *)
(*   - falocalrepo/console/database.py: the click handlers of the          *)
(*     database command group.                                             *)
(* Command-line tokens are sequences of one-character strings, so that the *)
(* regular expression of parse_args, str.split and str.strip are modelled  *)
(* by what they do to the characters.                                      *)
(***************************************************************************)
EXTENDS Integers, Sequences, FiniteSets, TLC

VARIABLES
    \* ---- parse_args / parameters_multi (specification SpecArgs)
    argv,       \* the raw argument tokens handed to the parser
    ret,        \* what the parser call returned (or raised)
    \* ---- one invocation of the program (specification Spec)
    pc,         \* position of the invocation
    front,      \* "console" (console.py) or "click" (console/database.py)
    comm,       \* first argv token: the command
    op,         \* second argv token: the operation ("" when absent)
    rest,       \* the remaining argv tokens
    env,        \* what the process finds around it: schema version, processes
    db,         \* the connection: open flag and its uncommitted working copy
    persisted,  \* the archive as committed to disk
    other,      \* the second archive of copy / merge, as committed
    connLog,    \* the calls made on the connection, in order
    result,     \* how the invocation ended
    handler,    \* the handler whose body was started ("none" before)
    scanned,    \* check_process ran and passed
    warned,     \* the version mismatch was printed
    transferred,\* click copy/merge: db.copy / db.merge ran to completion
    opt,        \* click edit: what FILE holds, the table, whether ID exists
    \* ---- database search column selection (specification SpecSearch)
    table,      \* the TABLE argument
    column,     \* the raw values of the --column options
    headers,    \* the column list handed to search() and the renderer
    \* ---- two searches that differ in their widths (specification SpecWidths)
    pair,       \* the --column values of the second search, the --ignore-width
                \* flag of each, and the --output the two share
    shown,      \* what each of the two searches selected and wrote
    \* ---- the query compilation of search() (specification SpecQuery)
    query,      \* the inputs of search(): table, field of the term, pattern, sql
    compiled,   \* what search() handed to query_to_sql and got back
    \* ---- database add (specification SpecAdd)
    addIn,      \* the arguments: table, what FILE holds, --replace
    addPc,      \* position of the handler
    store,      \* the users, submissions and journals tables, as committed
    addLog,     \* the history of the archive, as committed
    addResult,  \* how the handler ended
    \* ---- the renderers of search and export (specification SpecRender)
    rin,        \* the renderer, the cursor's columns and records, the layout
    rpc,        \* position of the renderer
    pulled,     \* how many records have been pulled from the cursor
    held,       \* the records pulled and waiting to be written
    out,        \* the writes made to the destination, in order
    total,      \* results_total
    \* ---- one handler called on its own (specifications SpecUpdate, SpecEdit,
    \* ---- SpecRemove, SpecHistory, SpecTransfer, SpecUpgrade)
    cin,        \* the arguments and options of the call, and the data it finds
    cpc,        \* position of the handler
    cout        \* what the handler has done so far

argsVars == <<argv, ret>>
runVars == <<pc, front, comm, op, rest, env, db, persisted, other, connLog,
             result, handler, scanned, warned, transferred, opt>>
searchVars == <<table, column, headers, pair, shown>>
queryVars == <<query, compiled>>
addVars == <<addIn, addPc, store, addLog, addResult>>
renderVars == <<rin, rpc, pulled, held, out, total>>
callVars == <<cin, cpc, cout>>
clickVars == <<searchVars, queryVars, addVars, renderVars, callVars>>
vars == <<argsVars, runVars, clickVars>>

----------------------------------------------------------------------------
(* Bounds of the model *)

\* most tokens after the command and the operation
MaxArgs == 3
\* most tokens in one call of parse_args / parameters_multi
MaxTokens == 3
\* most processes check_process finds to match
MaxProcs == 2
\* most --column options of one search
MaxColumns == 2
\* most records a cursor yields
MaxRecords == 2

----------------------------------------------------------------------------
(* Characters and strings *)

\* the characters \w matches, among those the tokens below are made of
WordChars == {"a", "b", "c", "d", "e", "f", "i", "l", "m", "o", "p", "s", "t", "v",
              "A", "D", "E", "H", "I", "L", "O", "R", "T", "U",
              "0", "1", "2", "5", "7", "_"}

WhiteSpace == {" ", "\t", "\n"}

IsWordChar(c) == c \in WordChars

Contains(s, c) == \E i \in 1..Len(s) : s[i] = c

\* index of the first occurrence of c in s (s contains c)
IndexOf(s, c) == CHOOSE i \in 1..Len(s) : s[i] = c /\ \A j \in 1..(i - 1) : s[j] # c

\* str.split(c, 1): one split at the first occurrence, the whole string when absent
Split1(s, c) ==
    IF Contains(s, c)
    THEN <<SubSeq(s, 1, IndexOf(s, c) - 1), SubSeq(s, IndexOf(s, c) + 1, Len(s))>>
    ELSE <<s>>

RECURSIVE LStrip(_)
LStrip(s) == IF s # <<>> /\ Head(s) \in WhiteSpace THEN LStrip(Tail(s)) ELSE s

RECURSIVE RStrip(_)
RStrip(s) ==
    IF s # <<>> /\ s[Len(s)] \in WhiteSpace THEN RStrip(SubSeq(s, 1, Len(s) - 1)) ELSE s

\* str.strip()
Strip(s) == RStrip(LStrip(s))

\* dict assignment d[k] = v
DictSet(d, k, v) == [x \in (DOMAIN d) \cup {k} |-> IF x = k THEN v ELSE d[x]]

\* dict.get(k, default)
DictGet(d, k, default) == IF k \in DOMAIN d THEN d[k] ELSE default

EmptyDict == [x \in {} |-> <<>>]

\* all sequences over S of length at most n
RECURSIVE SeqsUpTo(_, _)
SeqsUpTo(S, n) ==
    IF n = 0 THEN {<<>>}
    ELSE LET shorter == SeqsUpTo(S, n - 1)
         IN  shorter \cup {Append(s, x) : s \in {t \in shorter : Len(t) = n - 1}, x \in S}

----------------------------------------------------------------------------
(* console.py: the option parsers *)

\* re.match(r"^[\w-]+=.*$", arg): a non-empty run of word characters and
\* dashes, an equals sign, then anything but a line break ($ also matches
\* before one trailing line break)
OptionPattern(arg) ==
    \E i \in 2..Len(arg) :
        /\ arg[i] = "="
        /\ \A j \in 1..(i - 1) : IsWordChar(arg[j]) \/ arg[j] = "-"
        /\ \A j \in (i + 1)..(Len(arg) - 1) : arg[j] # "\n"

\* a mutation of parameters_multi: the assignment replaces the list
RECURSIVE ParametersMultiOverwrite(_, _, _)
ParametersMultiOverwrite(args, i, params) ==
    IF i > Len(args) THEN params
    ELSE LET pv == Split1(args[i], "=")
             param == Strip(pv[1])
         IN  ParametersMultiOverwrite(args, i + 1, DictSet(params, param, <<pv[2]>>))

\* parameters_multi: split every token at its first "=", strip the name,
\* append the value to the name's list; a token without "=" cannot be
\* unpacked into (param, value) and raises ValueError
RECURSIVE ParametersMultiLoop(_, _, _)
ParametersMultiLoop(args, i, params) ==
    IF i > Len(args) THEN params
    ELSE LET pv == Split1(args[i], "=")
             param == Strip(pv[1])
         IN  ParametersMultiLoop(args, i + 1,
                 DictSet(params, param, Append(DictGet(params, param, <<>>), pv[2])))

parameters_multi(args) ==
    IF \E i \in 1..Len(args) : ~Contains(args[i], "=")
    THEN [error |-> "ValueError", params |-> EmptyDict]
    ELSE [error |-> "none", params |-> ParametersMultiLoop(args, 1, EmptyDict)]

\* parameters: the dict comprehension {p: v for p, v in ...}; a later token
\* with the same name replaces the earlier value
RECURSIVE ParametersLoop(_, _, _)
ParametersLoop(args, i, params) ==
    IF i > Len(args) THEN params
    ELSE LET pv == Split1(args[i], "=")
         IN  ParametersLoop(args, i + 1, DictSet(params, pv[1], pv[2]))

parameters(args) == ParametersLoop(args, 1, EmptyDict)

DashDash == <<"-", "-">>

\* the loop of parse_args: options while the tokens match, then the tail
RECURSIVE ParseArgsLoop(_, _, _)
ParseArgsLoop(args_raw, i, opts) ==
    IF i > Len(args_raw) THEN [opts |-> opts, args |-> <<>>]
    ELSE IF OptionPattern(args_raw[i])
         THEN ParseArgsLoop(args_raw, i + 1, Append(opts, args_raw[i]))
         ELSE IF args_raw[i] = DashDash
              THEN [opts |-> opts, args |-> SubSeq(args_raw, i + 1, Len(args_raw))]
              ELSE [opts |-> opts, args |-> SubSeq(args_raw, i, Len(args_raw))]

\* a mutation of the loop: a positional token is collected and the scan goes on
RECURSIVE ParseArgsNoBreak(_, _, _, _)
ParseArgsNoBreak(args_raw, i, opts, args) ==
    IF i > Len(args_raw) THEN [opts |-> opts, args |-> args]
    ELSE IF OptionPattern(args_raw[i])
         THEN ParseArgsNoBreak(args_raw, i + 1, Append(opts, args_raw[i]), args)
         ELSE ParseArgsNoBreak(args_raw, i + 1, opts, Append(args, args_raw[i]))

ParseArgsScanAll(args_raw) == ParseArgsNoBreak(args_raw, 1, <<>>, <<>>)

ParseArgsSplit(args_raw) == ParseArgsLoop(args_raw, 1, <<>>)

\* parse_args: (parameters(opts), args)
parse_args(args_raw) ==
    LET s == ParseArgsSplit(args_raw)
    IN  [opts |-> parameters(s.opts), args |-> s.args]

----------------------------------------------------------------------------
(* console.py: the checks made before a handler runs *)

\* a mutation: the mismatch is raised whatever raise_for_error says
CheckVersionAlwaysRaises(versionOK, raise_for_error) ==
    [printed |-> ~versionOK, raised |-> ~versionOK]

\* check_database_version: print the mismatch, raise when asked to
check_database_version(versionOK, raise_for_error) ==
    [printed |-> ~versionOK, raised |-> ~versionOK /\ raise_for_error]

\* a mutation: the threshold is off by one
CheckProcessOffByOne(n) == n > 2

\* check_process: ps counts the matching processes and MultipleInstances is
\* raised as soon as ps > 1; n is the number of matching processes
check_process(n) == n > 1

----------------------------------------------------------------------------
(* console.py: the routing tables *)

NoRoute == [exc |-> "none", handler |-> "none", scanned |-> FALSE, warned |-> FALSE]

\* help_(comm, op): sub is "" when no operation token follows, "other" when a
\* token follows that names no operation
help_(c, sub) ==
    IF \/ (c = "" /\ sub = "")
       \/ c \in {"help", "update", "init"}
       \/ (c \in {"config", "download", "database"} /\ sub = "")
    THEN "ok" ELSE "UnknownCommand"

\* init(db)
init(e) ==
    LET v == check_database_version(e.versionOK, TRUE)
    IN  IF v.raised THEN [NoRoute EXCEPT !.exc = "VersionError", !.warned = v.printed]
        ELSE [NoRoute EXCEPT !.handler = "init", !.warned = v.printed]

\* config(db, comm, *args): the last case builds UnknownCommand and drops it
config(e, o) ==
    LET v == check_database_version(e.versionOK, TRUE)
    IN  IF v.raised THEN [NoRoute EXCEPT !.exc = "VersionError", !.warned = v.printed]
        ELSE CASE o \in {"", "list"} -> [NoRoute EXCEPT !.handler = "config_list"]
               [] o = "cookies" -> [NoRoute EXCEPT !.handler = "config_cookies"]
               [] o = "files-folder" -> [NoRoute EXCEPT !.handler = "config_files_folder"]
               [] OTHER -> NoRoute

DownloadHandlers ==
    [users |-> "download_users", update |-> "download_update",
     submissions |-> "download_submissions", journals |-> "download_journals"]

\* a mutation of download: the process scan is left out
DownloadWithoutScan(e, o) ==
    LET v == check_database_version(e.versionOK, TRUE)
    IN  IF v.raised THEN [NoRoute EXCEPT !.exc = "VersionError", !.warned = v.printed]
        ELSE IF o \in DOMAIN DownloadHandlers
             THEN [NoRoute EXCEPT !.handler = DownloadHandlers[o]]
             ELSE [NoRoute EXCEPT !.exc = "UnknownCommand"]

\* download(db, comm, *args)
download(e, o) ==
    LET v == check_database_version(e.versionOK, TRUE)
    IN  IF v.raised THEN [NoRoute EXCEPT !.exc = "VersionError", !.warned = v.printed]
        ELSE IF check_process(e.nprocs) THEN [NoRoute EXCEPT !.exc = "MultipleInstances"]
        ELSE IF o \in DOMAIN DownloadHandlers
             THEN [NoRoute EXCEPT !.handler = DownloadHandlers[o], !.scanned = TRUE]
             ELSE [NoRoute EXCEPT !.exc = "UnknownCommand", !.scanned = TRUE]

DatabaseHandlers ==
    [x \in {"", "info", "history", "search-users", "search-submissions", "search-journals",
            "add-user", "add-submission", "add-journal", "remove-users",
            "remove-submissions", "remove-journals", "server", "merge", "copy", "clean",
            "upgrade"} |->
        CASE x \in {"", "info"} -> "database_info"
          [] x = "history" -> "database_history"
          [] x \in {"search-users", "search-submissions", "search-journals"} -> "database_search"
          [] x = "add-user" -> "database_add_user"
          [] x = "add-submission" -> "database_add_submission"
          [] x = "add-journal" -> "database_add_journal"
          [] x = "remove-users" -> "database_remove_users"
          [] x = "remove-submissions" -> "database_remove_submissions"
          [] x = "remove-journals" -> "database_remove_journals"
          [] x = "server" -> "database_server"
          [] x = "merge" -> "database_merge"
          [] x = "copy" -> "database_copy"
          [] x = "clean" -> "database_clean"
          [] x = "upgrade" -> "database_upgrade"]

\* database(db, comm, *args)
database(e, o) ==
    LET v == check_database_version(e.versionOK, o \notin {"", "info", "upgrade"})
    IN  IF v.raised THEN [NoRoute EXCEPT !.exc = "VersionError", !.warned = v.printed]
        ELSE IF o \in DOMAIN DatabaseHandlers
             THEN [NoRoute EXCEPT !.handler = DatabaseHandlers[o], !.warned = v.printed]
             ELSE [NoRoute EXCEPT !.exc = "UnknownCommand", !.warned = v.printed]

\* the if / elif chain of console() after the history is written
Route(c, o, e) ==
    CASE c = "init" -> init(e)
      [] c = "config" -> config(e, o)
      [] c = "download" -> download(e, o)
      [] c = "database" -> database(e, o)

----------------------------------------------------------------------------
(* console.py: the handler bodies.  A body yields the calls it makes on the  *)
(* connection when nothing fails (ops), the exception its own code raises    *)
(* after them (exc), and the table group it writes (tag).                    *)

Digits == {"0", "1", "2", "5", "7"}

\* the option name stop of download update
OptStop == <<"s", "t", "o", "p">>

\* int(s) accepts an optionally padded run of digits
IntParses(s) == Strip(s) # <<>> /\ \A i \in 1..Len(Strip(s)) : Strip(s)[i] \in Digits

Quiet == [exc |-> "none", ops |-> <<>>, tag |-> "none"]
Raises(x) == [exc |-> x, ops |-> <<>>, tag |-> "none"]
Writes(t) == [exc |-> "none", ops |-> <<"write">>, tag |-> t]

config_cookies(args) ==
    CASE Len(args) = 0 -> Quiet
      [] Len(args) = 2 -> Writes("cookies")
      [] OTHER -> Raises("MalformedCommand")

config_files_folder(args_raw) ==
    LET args == parse_args(args_raw).args
    IN  CASE Len(args) = 0 -> Quiet
          [] Len(args) = 1 -> Writes("files_folder")
          [] OTHER -> Raises("MalformedCommand")

download_users(args) ==
    IF Len(args) = 2 THEN Writes("download") ELSE Raises("MalformedCommand")

\* no case of the match raises: any other shape leaves users and folders
\* empty and the update runs
download_update(args_raw) ==
    LET p == parse_args(args_raw)
    IN  IF OptStop \in DOMAIN p.opts /\ ~IntParses(p.opts[OptStop])
        THEN Raises("ValueError")
        ELSE Writes("download")

download_submissions(args) ==
    IF Len(args) = 0 THEN Raises("MalformedCommand") ELSE Writes("download")

download_journals(args) ==
    IF Len(args) = 0 THEN Raises("MalformedCommand") ELSE Writes("download")

\* database_search: parameters_multi(args), then a read
database_search_console(args) ==
    IF parameters_multi(args).error # "none" THEN Raises("ValueError") ELSE Quiet

\* database_add_user / database_add_journal: args[0] is read unguarded
database_add_user(args) ==
    IF Len(args) = 0 THEN Raises("IndexError") ELSE Writes("entries")

database_add_journal(args) ==
    IF Len(args) = 0 THEN Raises("IndexError") ELSE Writes("entries")

\* database_add_submission: args[0], then parameters(args[1:])
database_add_submission(args) ==
    IF Len(args) = 0 THEN Raises("IndexError")
    ELSE IF \E i \in 2..Len(args) : ~Contains(args[i], "=") THEN Raises("ValueError")
    ELSE Writes("entries")

\* database_remove_users: delete and commit, one user after the other
RECURSIVE RemoveEach(_)
RemoveEach(args) ==
    IF args = <<>> THEN <<>> ELSE <<"write", "commit">> \o RemoveEach(Tail(args))

database_remove_users(args) == [exc |-> "none", ops |-> RemoveEach(args), tag |-> "entries"]

\* the ids before the first one int() rejects
RECURSIVE IntPrefix(_)
IntPrefix(args) ==
    IF args = <<>> \/ ~IntParses(Head(args)) THEN <<>>
    ELSE <<Head(args)>> \o IntPrefix(Tail(args))

\* database_remove_submissions: int(sub), delete, commit
database_remove_submissions(args) ==
    LET good == IntPrefix(args)
    IN  [exc |-> IF Len(good) < Len(args) THEN "ValueError" ELSE "none",
         ops |-> RemoveEach(good), tag |-> "entries"]

\* database_remove_journals: int(jrn), delete; one commit after the loop
database_remove_journals(args) ==
    LET good == IntPrefix(args)
    IN  IF Len(good) < Len(args)
        THEN [exc |-> "ValueError", ops |-> [i \in 1..Len(good) |-> "write"], tag |-> "entries"]
        ELSE [exc |-> "none", ops |-> [i \in 1..Len(good) |-> "write"] \o <<"commit">>,
              tag |-> "entries"]

\* database_server: db.close(), then the server runs on the path
database_server(args) == [exc |-> "none", ops |-> <<"close">>, tag |-> "none"]

\* database_merge_copy(db, merge, *args)
database_merge_copy(merge, args) ==
    IF Len(args) = 0 THEN Raises("MalformedCommand")
    ELSE IF parameters_multi(Tail(args)).error # "none" THEN Raises("ValueError")
    ELSE IF merge THEN [exc |-> "none", ops |-> <<"write", "commit">>, tag |-> "entries"]
    ELSE [exc |-> "none", ops |-> <<"write_other", "commit">>, tag |-> "entries"]

database_clean(args) == Writes("vacuum")

database_upgrade(args) == Writes("version")

HandlerBody(h, args) ==
    CASE h \in {"init", "config_list", "database_info", "database_history"} -> Quiet
      [] h = "config_cookies" -> config_cookies(args)
      [] h = "config_files_folder" -> config_files_folder(args)
      [] h = "download_users" -> download_users(args)
      [] h = "download_update" -> download_update(args)
      [] h = "download_submissions" -> download_submissions(args)
      [] h = "download_journals" -> download_journals(args)
      [] h = "database_search" -> database_search_console(args)
      [] h = "database_add_user" -> database_add_user(args)
      [] h = "database_add_submission" -> database_add_submission(args)
      [] h = "database_add_journal" -> database_add_journal(args)
      [] h = "database_remove_users" -> database_remove_users(args)
      [] h = "database_remove_submissions" -> database_remove_submissions(args)
      [] h = "database_remove_journals" -> database_remove_journals(args)
      [] h = "database_server" -> database_server(args)
      [] h = "database_merge" -> database_merge_copy(TRUE, args)
      [] h = "database_copy" -> database_merge_copy(FALSE, args)
      [] h = "database_clean" -> database_clean(args)
      [] h = "database_upgrade" -> database_upgrade(args)

----------------------------------------------------------------------------
(* The connection and the archive *)

Commit(d) == [history |-> d.history, tables |-> d.tables]

\* the calls ops made one after the other on connection d over archive p
\* (and the second archive o), writing table group tag
RECURSIVE ApplyOps(_, _, _, _, _)
ApplyOps(ops, tag, d, p, o) ==
    IF ops = <<>> THEN [db |-> d, persisted |-> p, other |-> o]
    ELSE CASE Head(ops) = "write" ->
                ApplyOps(Tail(ops), tag, [d EXCEPT !.tables = @ \cup {tag}], p, o)
           [] Head(ops) = "write_other" ->
                ApplyOps(Tail(ops), tag, d, p, [o EXCEPT !.tables = @ \cup {tag}])
           [] Head(ops) = "commit" -> ApplyOps(Tail(ops), tag, d, Commit(d), o)
           [] Head(ops) = "close" -> ApplyOps(Tail(ops), tag, [d EXCEPT !.open = FALSE], p, o)

\* a mutation of the finally clause: no is_open() test
FinallyOpsUnguarded(isOpen) == <<"commit", "close">>

\* the finally clause of console(): commit and close when still open
FinallyOps(isOpen) == IF isOpen THEN <<"commit", "close">> ELSE <<>>

----------------------------------------------------------------------------
(* Variables of the parts a specification does not exercise stay at rest *)

NoOpt == [data |-> "object", subs |-> FALSE, exists |-> TRUE]

NoReturn == [fn |-> "none", error |-> "none", opts |-> EmptyDict, args |-> <<>>,
             params |-> EmptyDict]

ArgsAtRest == argv = <<>> /\ ret = NoReturn

RunAtRest ==
    /\ pc = "off" /\ front = "none" /\ comm = "" /\ op = "" /\ rest = <<>>
    /\ env = [versionOK |-> TRUE, nprocs |-> 0, otherConn |-> FALSE]
    /\ db = [open |-> FALSE, history |-> <<>>, tables |-> {}]
    /\ persisted = [history |-> <<>>, tables |-> {}]
    /\ other = [history |-> <<>>, tables |-> {}]
    /\ connLog = <<>> /\ result = "none" /\ handler = "none"
    /\ scanned = FALSE /\ warned = FALSE /\ transferred = FALSE
    /\ opt = NoOpt

NoHeaders == [error |-> "pending", list |-> <<>>]

NoPair == [column |-> <<>>, output |-> "none", ignore_width |-> FALSE,
           ignore_width2 |-> FALSE]

NoOutput == [error |-> "pending", fn |-> "none", columns |-> <<>>, headers |-> <<>>,
             ignore_width |-> FALSE, writes |-> <<>>]

NoShown == [a |-> NoOutput, b |-> NoOutput]

SearchAtRest ==
    /\ table = "none" /\ column = <<>> /\ headers = NoHeaders
    /\ pair = NoPair /\ shown = NoShown

NoQuery == [table |-> "none", field |-> "none", pattern |-> <<>>, sql |-> FALSE]

NoCompiled == [called |-> FALSE, field |-> <<>>, likes |-> {}, aliases |-> EmptyDict,
               elems |-> <<>>, values |-> <<>>]

QueryAtRest == query = NoQuery /\ compiled = NoCompiled

NoData == [kind |-> "object", keys |-> {}, id |-> "none"]

NoAdd == [table |-> "none", data |-> NoData, replace |-> FALSE, versionOK |-> TRUE]

AddAtRest ==
    /\ addIn = NoAdd /\ addPc = "idle" /\ store = <<>> /\ addLog = <<>>
    /\ addResult = "none"

NoLayout == [narrow |-> FALSE, terminal |-> 0, ignore_width |-> FALSE]

NoRender == [renderer |-> "none", columns |-> <<>>, records |-> <<>>, layout |-> NoLayout]

RenderAtRest ==
    /\ rin = NoRender /\ rpc = "idle" /\ pulled = 0 /\ held = <<>> /\ out = <<>>
    /\ total = 0

NoCall == [handler |-> "none"]

CallAtRest == cin = NoCall /\ cpc = "idle" /\ cout = NoCall

\* the variables a handler called on its own leaves alone
CallRest == <<argsVars, runVars, searchVars, queryVars, addVars, renderVars>>

OthersAtRest ==
    ArgsAtRest /\ RunAtRest /\ SearchAtRest /\ QueryAtRest /\ AddAtRest /\ RenderAtRest

ClickAtRest == SearchAtRest /\ QueryAtRest /\ AddAtRest /\ RenderAtRest /\ CallAtRest

----------------------------------------------------------------------------
(* Specification SpecArgs: the option parsers applied to token lists *)

\* the tokens the parsers are tried on: a=1  a=2  b=1  tom  --  =1  " a=5"
\* a=b=2  and a value holding a line break
Vocabulary ==
    { <<"a", "=", "1">>, <<"a", "=", "2">>, <<"b", "=", "1">>, <<"t", "o", "m">>,
      DashDash, <<"=", "1">>, <<" ", "a", "=", "5">>, <<"a", "=", "b", "=", "2">>,
      <<"a", "=", "\n", "1">> }

ArgsInit ==
    /\ argv \in SeqsUpTo(Vocabulary, MaxTokens)
    /\ ret = NoReturn
    /\ RunAtRest /\ ClickAtRest

CallParseArgs ==
    /\ ret.fn = "none"
    /\ ret' = [fn |-> "parse_args", error |-> "none", opts |-> parse_args(argv).opts,
               args |-> parse_args(argv).args, params |-> EmptyDict]
    /\ UNCHANGED <<argv, runVars, clickVars>>

CallParametersMulti ==
    /\ ret.fn = "none"
    /\ ret' = [fn |-> "parameters_multi", error |-> parameters_multi(argv).error,
               opts |-> EmptyDict, args |-> <<>>, params |-> parameters_multi(argv).params]
    /\ UNCHANGED <<argv, runVars, clickVars>>

ArgsNext == CallParseArgs \/ CallParametersMulti

SpecArgs == ArgsInit /\ [][ArgsNext]_vars

----------------------------------------------------------------------------
(* Specification Spec: one invocation of the program *)

\* the tokens that follow the operation: @  tom  12  move=false
TokAt == <<"@">>
TokTom == <<"t", "o", "m">>
TokId == <<"1", "2">>
TokMove == <<"m", "o", "v", "e", "=", "f", "a", "l", "s", "e">>
ArgTokens == {TokAt, TokTom, TokId, TokMove}
ArgLists == SeqsUpTo(ArgTokens, MaxArgs)

Informational == {"", "-h", "-v", "-d", "-s"}
DbCommands == {"init", "config", "download", "database"}
Commands == Informational \cup DbCommands \cup {"help", "update", "bogus"}

ConfigOps == {"list", "cookies", "files-folder"}

\* the operations tried after each command; "bogus" is in no routing table
OpsOf(c) ==
    CASE c = "config" -> ConfigOps \cup {"", "bogus"}
      [] c = "download" -> (DOMAIN DownloadHandlers) \cup {"", "bogus"}
      [] c = "database" -> (DOMAIN DatabaseHandlers) \cup {"bogus"}
      [] c = "help" -> {"", "init", "database", "bogus"}
      [] OTHER -> {""}

RestOf(c, o) ==
    CASE c = "help" -> IF o = "" THEN {<<>>} ELSE {<<>>, <<TokTom>>}
      [] c \in {"config", "download", "database"} /\ o # "" -> ArgLists
      [] OTHER -> {<<>>}

\* the archive before the invocation: one earlier command in its history
OldEntry == <<"init", "", <<>>>>
InitialArchive == [history |-> <<OldEntry>>, tables |-> {}]

\* the history entry of this invocation: the command line
Entry == <<comm, op, rest>>

\* FADatabase.check_connection(path, raise_for_error=True)
check_connection(otherConn) == otherConn

RunInit ==
    /\ pc = "idle" /\ front = "none" /\ comm = "" /\ op = "" /\ rest = <<>>
    /\ env \in [versionOK : BOOLEAN, nprocs : 0..MaxProcs, otherConn : BOOLEAN]
    /\ db = [open |-> FALSE, history |-> <<>>, tables |-> {}]
    /\ persisted = InitialArchive
    /\ other = InitialArchive
    /\ connLog = <<>> /\ result = "none" /\ handler = "none"
    /\ scanned = FALSE /\ warned = FALSE /\ transferred = FALSE
    /\ opt = NoOpt

\* console(): the match on comm, check_connection and the connection
ConsoleStart ==
    /\ pc = "idle"
    /\ \E c \in Commands : \E o \in OpsOf(c) : \E r \in RestOf(c, o) :
        /\ front' = "console" /\ comm' = c /\ op' = o /\ rest' = r
        /\ CASE c \in Informational \cup {"update"} ->
                    /\ result' = "ok" /\ pc' = "done"
                    /\ UNCHANGED <<db, connLog>>
             [] c = "help" ->
                    /\ result' = help_(o, IF r = <<>> THEN "" ELSE "other")
                    /\ pc' = "done"
                    /\ UNCHANGED <<db, connLog>>
             [] c \in DbCommands /\ check_connection(env.otherConn) ->
                    /\ result' = "MultipleConnections" /\ pc' = "done"
                    /\ UNCHANGED <<db, connLog>>
             [] c \in DbCommands /\ ~check_connection(env.otherConn) ->
                    /\ db' = [open |-> TRUE, history |-> persisted.history,
                              tables |-> persisted.tables]
                    /\ connLog' = <<"open">>
                    /\ pc' = "history"
                    /\ UNCHANGED result
             [] OTHER ->
                    /\ result' = "UnknownCommand" /\ pc' = "done"
                    /\ UNCHANGED <<db, connLog>>
    /\ UNCHANGED <<env, persisted, other, handler, scanned, warned, transferred, opt>>
    /\ UNCHANGED <<argsVars, clickVars>>

\* a mutation: the entry is added but the commit is left to the finally clause
RecordHistoryUncommitted ==
    /\ pc = "history"
    /\ db' = [db EXCEPT !.history = Append(@, Entry)]
    /\ connLog' = connLog \o <<"add_history">>
    /\ pc' = "dispatch"
    /\ UNCHANGED <<front, comm, op, rest, env, persisted, other, result, handler, scanned,
                   warned, transferred, opt>>
    /\ UNCHANGED <<argsVars, clickVars>>

\* console(): db.settings.add_history(...); db.commit()
RecordHistory ==
    /\ pc = "history"
    /\ db' = [db EXCEPT !.history = Append(@, Entry)]
    /\ persisted' = Commit(db')
    /\ connLog' = connLog \o <<"add_history", "commit">>
    /\ pc' = "dispatch"
    /\ UNCHANGED <<front, comm, op, rest, env, other, result, handler, scanned, warned,
                   transferred, opt>>
    /\ UNCHANGED <<argsVars, clickVars>>

\* console(): the call of init / config / download / database, up to the
\* point where the handler is chosen or an exception leaves the dispatcher
Dispatch ==
    /\ pc = "dispatch"
    /\ LET r == Route(comm, op, env)
       IN  /\ scanned' = r.scanned
           /\ warned' = r.warned
           /\ IF r.exc # "none"
              THEN result' = r.exc /\ pc' = "finally" /\ UNCHANGED handler
              ELSE IF r.handler = "none"
                   THEN result' = "ok" /\ pc' = "finally" /\ UNCHANGED handler
                   ELSE handler' = r.handler /\ pc' = "body" /\ UNCHANGED result
    /\ UNCHANGED <<front, comm, op, rest, env, db, persisted, other, connLog, transferred, opt>>
    /\ UNCHANGED <<argsVars, clickVars>>

OnConnection(ops) == SelectSeq(ops, LAMBDA x : x # "write_other")

\* the handler runs: it raises its own exception, returns, or a call it makes
\* fails after k of its calls on the connection
Body ==
    /\ pc = "body"
    /\ LET b == HandlerBody(handler, rest)
       IN  \E failed \in BOOLEAN : \E k \in 0..Len(b.ops) :
            /\ k < Len(b.ops) => failed
            /\ (failed /\ k = Len(b.ops)) => b.exc = "none"
            /\ LET a == ApplyOps(SubSeq(b.ops, 1, k), b.tag, db, persisted, other)
               IN  /\ db' = a.db /\ persisted' = a.persisted /\ other' = a.other
                   /\ connLog' = connLog \o OnConnection(SubSeq(b.ops, 1, k))
            /\ result' = IF failed THEN "Failure"
                         ELSE IF b.exc # "none" THEN b.exc ELSE "ok"
    /\ pc' = "finally"
    /\ UNCHANGED <<front, comm, op, rest, env, handler, scanned, warned, transferred, opt>>
    /\ UNCHANGED <<argsVars, clickVars>>

\* console(): finally: if db is not None and db.is_open(): commit, close
Finally ==
    /\ pc = "finally"
    /\ LET ops == FinallyOps(db.open)
           a == ApplyOps(ops, "none", db, persisted, other)
       IN  /\ db' = a.db /\ persisted' = a.persisted
           /\ connLog' = connLog \o ops
    /\ pc' = "done"
    /\ UNCHANGED <<front, comm, op, rest, env, other, result, handler, scanned, warned,
                   transferred, opt>>
    /\ UNCHANGED <<argsVars, clickVars>>

----------------------------------------------------------------------------
(* console/database.py: the click handlers, as far as the order of their    *)
(* steps goes                                                                *)

\* the database option's callable of util.py: open the archive and, unless
\* check_version is off, refuse a schema version that is not the program's
click_database(versionOK, check_version) == check_version /\ ~versionOK

\* add_history of util.py: append the command to the history and commit
add_history(a, e) == [a EXCEPT !.history = Append(@, e)]

ClickOps == {"info", "copy", "merge", "edit"}

EditOptions == [data : {"object", "emptyobject", "list", "emptylist"},
                subs : BOOLEAN, exists : BOOLEAN]

ClickStart ==
    /\ pc = "idle"
    /\ \E o \in ClickOps : \E x \in (IF o = "edit" THEN EditOptions ELSE {NoOpt}) :
        /\ front' = "click" /\ comm' = "database" /\ op' = o /\ opt' = x
    /\ pc' = "click"
    /\ UNCHANGED <<rest, env, db, persisted, other, connLog, result, handler, scanned,
                   warned, transferred>>
    /\ UNCHANGED <<argsVars, clickVars>>

\* database_info: the mismatch is printed and the listing stops after the
\* location, version and size lines
ClickInfo ==
    /\ pc = "click" /\ op = "info"
    /\ handler' = "click_database_info"
    /\ warned' = ~env.versionOK
    /\ IF click_database(env.versionOK, FALSE)
       THEN result' = "VersionError"
       ELSE result' \in {"ok", "Failure"}
    /\ pc' = "done"
    /\ UNCHANGED <<front, comm, op, rest, env, db, persisted, other, connLog, scanned,
                   transferred, opt>>
    /\ UNCHANGED <<argsVars, clickVars>>

\* database_copy / merge: open both archives, select, db.copy or db.merge,
\* db.commit()
ClickTransfer ==
    /\ pc = "click" /\ op \in {"copy", "merge"}
    /\ IF click_database(env.versionOK, TRUE)
       THEN /\ result' = "VersionError" /\ pc' = "done"
            /\ UNCHANGED <<handler, persisted, other, transferred>>
       ELSE /\ handler' = IF op = "copy" THEN "click_database_copy" ELSE "click_database_merge"
            /\ \/ /\ result' = "Failure" /\ pc' = "done"
                  /\ UNCHANGED <<persisted, other, transferred>>
               \/ /\ IF op = "copy"
                     THEN other' = [other EXCEPT !.tables = @ \cup {"entries"}]
                          /\ UNCHANGED persisted
                     ELSE persisted' = [persisted EXCEPT !.tables = @ \cup {"entries"}]
                          /\ UNCHANGED other
                  /\ transferred' = TRUE
                  /\ pc' = "click_history"
                  /\ UNCHANGED result
    /\ UNCHANGED <<front, comm, op, rest, env, db, connLog, scanned, warned, opt>>
    /\ UNCHANGED <<argsVars, clickVars>>

\* database_copy / merge: add_history on the destination, after the transfer
ClickTransferHistory ==
    /\ pc = "click_history"
    /\ IF op = "copy"
       THEN other' = add_history(other, Entry) /\ UNCHANGED persisted
       ELSE persisted' = add_history(persisted, Entry) /\ UNCHANGED other
    /\ result' = "ok"
    /\ pc' = "done"
    /\ UNCHANGED <<front, comm, op, rest, env, db, connLog, handler, scanned, warned,
                   transferred, opt>>
    /\ UNCHANGED <<argsVars, clickVars>>

\* what database_edit accepts of FILE: not empty unless the table is
\* submissions, and a JSON object
EditAccepts(x) ==
    /\ ~(x.data \in {"emptyobject", "emptylist"} /\ ~x.subs)
    /\ x.data \in {"object", "emptyobject"}

\* database_edit: load(file) and the two checks of data
ClickEditLoad ==
    /\ pc = "click" /\ op = "edit"
    /\ IF click_database(env.versionOK, TRUE)
       THEN result' = "VersionError" /\ pc' = "done" /\ UNCHANGED handler
       ELSE /\ handler' = "click_database_edit"
            /\ IF EditAccepts(opt)
               THEN pc' = "click_edit" /\ UNCHANGED result
               ELSE result' = "BadParameter" /\ pc' = "done"
    /\ UNCHANGED <<front, comm, op, rest, env, db, persisted, other, connLog, scanned,
                   warned, transferred, opt>>
    /\ UNCHANGED <<argsVars, clickVars>>

\* database_edit: add_history, the lookup of the entry, the update
ClickEditApply ==
    /\ pc = "click_edit"
    /\ persisted' = add_history(persisted, Entry)
    /\ IF opt.exists THEN result' \in {"ok", "Failure"} ELSE result' = "BadParameter"
    /\ pc' = "done"
    /\ UNCHANGED <<front, comm, op, rest, env, db, other, connLog, handler, scanned,
                   warned, transferred, opt>>
    /\ UNCHANGED <<argsVars, clickVars>>

Next ==
    \/ ConsoleStart \/ RecordHistory \/ Dispatch \/ Body \/ Finally
    \/ ClickStart \/ ClickInfo \/ ClickTransfer \/ ClickTransferHistory
    \/ ClickEditLoad \/ ClickEditApply

Init == RunInit /\ ArgsAtRest /\ ClickAtRest

Spec == Init /\ [][Next]_vars

----------------------------------------------------------------------------
(* console/database.py: the columns of a search *)

UpperLetters == <<"A", "B", "C", "D", "E", "F", "G", "H", "I", "J", "K", "L", "M", "N", "O", "P", "Q", "R", "S", "T", "U", "V", "W", "X", "Y", "Z">>
LowerLetters == <<"a", "b", "c", "d", "e", "f", "g", "h", "i", "j", "k", "l", "m", "n", "o", "p", "q", "r", "s", "t", "u", "v", "w", "x", "y", "z">>

\* str.upper() on one character
Upper(c) ==
    IF \E i \in 1..Len(LowerLetters) : LowerLetters[i] = c
    THEN UpperLetters[CHOOSE i \in 1..Len(LowerLetters) : LowerLetters[i] = c]
    ELSE c

UpperStr(s) == [i \in 1..Len(s) |-> Upper(s[i])]

DigitValue(c) ==
    CASE c = "0" -> 0 [] c = "1" -> 1 [] c = "2" -> 2 [] c = "5" -> 5 [] c = "7" -> 7

\* int(s) of a run of digits
RECURSIVE DigitsValue(_)
DigitsValue(s) ==
    IF s = <<>> THEN 0 ELSE 10 * DigitsValue(SubSeq(s, 1, Len(s) - 1)) + DigitValue(s[Len(s)])

ParseInt(s) == DigitsValue(Strip(s))

\* column_callback: strip every value, drop the empty ones, split the others
\* at the first comma into (name, int(width)), width 0 without a comma
RECURSIVE ColumnCallbackLoop(_)
ColumnCallbackLoop(value) ==
    IF value = <<>> THEN <<>>
    ELSE LET v == Strip(Head(value))
             vs == Split1(v, ",")
         IN  IF v = <<>> THEN ColumnCallbackLoop(Tail(value))
             ELSE IF Contains(v, ",")
                  THEN <<[name |-> vs[1], width |-> ParseInt(vs[2])]>>
                       \o ColumnCallbackLoop(Tail(value))
                  ELSE <<[name |-> v, width |-> 0]>> \o ColumnCallbackLoop(Tail(value))

\* int() rejects the width of some value
ColumnWidthRejected(value) ==
    \E i \in 1..Len(value) :
        LET v == Strip(value[i])
        IN  Contains(v, ",") /\ ~IntParses(Split1(v, ",")[2])

column_callback(value) ==
    IF ColumnWidthRejected(value) THEN [error |-> "ValueError", list |-> <<>>]
    ELSE [error |-> "none", list |-> ColumnCallbackLoop(value)]

ColID == <<"I", "D">>
ColAUTHOR == <<"A", "U", "T", "H", "O", "R">>
ColDATE == <<"D", "A", "T", "E">>
ColTITLE == <<"T", "I", "T", "L", "E">>
ColUSERNAME == <<"U", "S", "E", "R", "N", "A", "M", "E">>
ColFOLDERS == <<"F", "O", "L", "D", "E", "R", "S">>

\* the values of users_table, submissions_table and journals_table, which
\* TableChoice hands to the handler
Tables == {"USERS", "SUBMISSIONS", "JOURNALS"}

\* db_table.columns: the first columns of each table
TableColumns(t) ==
    IF t = "USERS" THEN <<ColUSERNAME, ColFOLDERS>>
    ELSE <<ColID, ColAUTHOR, ColTITLE, ColDATE>>

ColumnSet(t) == {TableColumns(t)[i] : i \in 1..Len(TableColumns(t))}

\* the columns shown when no --column option is given
DefaultHeaders(t) ==
    IF t \in {"SUBMISSIONS", "JOURNALS"}
    THEN <<[name |-> ColID, width |-> 10], [name |-> ColAUTHOR, width |-> 16],
           [name |-> ColDATE, width |-> 16], [name |-> ColTITLE, width |-> 0]>>
    ELSE IF t = "USERS"
         THEN <<[name |-> ColUSERNAME, width |-> 40], [name |-> ColFOLDERS, width |-> 0]>>
         ELSE <<>>

\* a mutation: the width of the last column is left as given
KeepLastWidth(hs) == hs

\* headers[-1] = (headers[-1][0], 0)
ForceLastUnbounded(hs) == [hs EXCEPT ![Len(hs)] = [name |-> hs[Len(hs)].name, width |-> 0]]

\* database_search: the headers handed to search() and to the renderer
SearchHeaders(t, col) ==
    LET given == [i \in 1..Len(col) |-> [name |-> UpperStr(col[i].name), width |-> col[i].width]]
        chosen == IF col # <<>> THEN given ELSE DefaultHeaders(t)
        all == [i \in 1..Len(TableColumns(t)) |-> [name |-> TableColumns(t)[i], width |-> 0]]
        hs == IF \E i \in 1..Len(chosen) : chosen[i].name = <<"@">> THEN all ELSE chosen
    IN  IF hs = <<>> THEN [error |-> "IndexError", list |-> <<>>]
        ELSE [error |-> "none", list |-> ForceLastUnbounded(hs)]

----------------------------------------------------------------------------
(* Specification SpecSearch: database search with every choice of columns *)

\* the --column values tried: empty, blank, @, id, TITLE, ID,10  title,5
\* @,7 and a width that is no number
ColumnValues ==
    { <<>>, <<" ">>, <<"@">>, <<"i", "d">>, <<"T", "I", "T", "L", "E">>, <<"I", "D", ",", "1", "0">>,
      <<"t", "i", "t", "l", "e", ",", "5">>, <<"@", ",", "7">>, <<"I", "D", ",", "x">> }

SearchInit ==
    /\ table \in Tables
    /\ column \in SeqsUpTo(ColumnValues, MaxColumns)
    /\ headers = NoHeaders /\ pair = NoPair /\ shown = NoShown
    /\ ArgsAtRest /\ RunAtRest /\ QueryAtRest /\ AddAtRest /\ RenderAtRest /\ CallAtRest

\* database_search up to the call of search(): column_callback, then the
\* header list
SearchColumns ==
    /\ headers = NoHeaders
    /\ LET cb == column_callback(column)
       IN  headers' = IF cb.error # "none" THEN cb ELSE SearchHeaders(table, cb.list)
    /\ UNCHANGED <<table, column, pair, shown, argsVars, runVars, queryVars, addVars,
                   renderVars, callVars>>

SearchNext == SearchColumns

SpecSearch == SearchInit /\ [][SearchNext]_vars

\* C10: for every table and every combination of --column options the header
\* list of database_search is never empty and its last column has width 0
C10_LastColumnUnbounded ==
    /\ headers.error # "IndexError"
    /\ headers.error = "none" =>
           /\ Len(headers.list) >= 1
           /\ headers.list[Len(headers.list)].width = 0

\* the last --column option carried an explicit width, which was dropped
C10_Witness ==
    /\ headers.error = "none"
    /\ Len(column) = 2
    /\ column[2] = <<"t", "i", "t", "l", "e", ",", "5">>
    /\ Len(headers.list) = 2
    /\ headers.list[1].width = 10
    /\ headers.list[2] = [name |-> ColTITLE, width |-> 0]

----------------------------------------------------------------------------
(* console/database.py: search() and what it hands to query_to_sql *)

\* str.lower() on one character
Lower(c) ==
    IF \E i \in 1..Len(UpperLetters) : UpperLetters[i] = c
    THEN LowerLetters[CHOOSE i \in 1..Len(UpperLetters) : UpperLetters[i] = c]
    ELSE c

LowerStr(s) == [i \in 1..Len(s) |-> Lower(s[i])]

\* sep.join(parts)
RECURSIVE Join(_, _)
Join(parts, sep) ==
    IF parts = <<>> THEN <<>>
    ELSE IF Len(parts) = 1 THEN parts[1]
         ELSE parts[1] \o sep \o Join(Tail(parts), sep)

FieldAny == <<"a", "n", "y">>
FieldAuthor == <<"a", "u", "t", "h", "o", "r">>

\* the names search() takes out of the substring-match fields
ExactColumns == {ColID, ColAUTHOR, ColUSERNAME}

\* a mutation: nothing is taken out of the substring-match fields
SearchLikesAll(t) ==
    {LowerStr(c) : c \in {TableColumns(t)[i] : i \in 1..Len(TableColumns(t))} \cup {FieldAny}}

\* [*map(str.lower, {*cols_table, "any"} - {"ID", "AUTHOR", "USERNAME"})]
SearchLikes(t) ==
    {LowerStr(c) : c \in ({TableColumns(t)[i] : i \in 1..Len(TableColumns(t))} \cup {FieldAny})
                          \ ExactColumns}

AliasAuthor == <<"r", "e", "p", "l", "a", "c", "e", "(", "a", "u", "t", "h", "o", "r", ",", " ", "'", "_", "'", ",", " ", "'", "'", ")">>

\* a mutation: the any field has no alias
SearchAliasesAuthorOnly(t) == DictSet(EmptyDict, FieldAuthor, AliasAuthor)

\* {"author": "replace(author, '_', '')", "any": f"({'||'.join(cols_table)})"}
SearchAliases(t) ==
    DictSet(DictSet(EmptyDict, FieldAuthor, AliasAuthor),
            FieldAny, <<"(">> \o Join(TableColumns(t), <<"|", "|">>) \o <<")">>)

\* query_to_sql of falocalrepo_database, for a query of one term: the term is
\* compared under its field, default_field when it names none; the field is
\* replaced by its alias when it has one; the pattern is wrapped in % when the
\* field is among likes. The function is given no list of the table's
\* columns: likes lacks the exact ones.
query_to_sql(q, default_field, likes, aliases) ==
    LET f == IF q.field = <<>> THEN default_field ELSE q.field
        substring == f \in likes
    IN  [field |-> f,
         elems |-> <<[expr |-> DictGet(aliases, f, f),
                      policy |-> IF substring THEN "substring" ELSE "exact"]>>,
         values |-> <<IF substring THEN <<"%">> \o q.pattern \o <<"%">> ELSE q.pattern>>]

\* a mutation: the pattern is written into the comparison and nothing is bound
SearchInterpolating(q) ==
    [called |-> TRUE, field |-> FieldAny, likes |-> SearchLikes(q.table),
     aliases |-> SearchAliases(q.table),
     elems |-> <<[expr |-> <<"'">> \o q.pattern \o <<"'">>, policy |-> "sql"]>>,
     values |-> <<>>]

\* search(): with --sql the query is the WHERE clause as typed and nothing is
\* compiled; otherwise query_to_sql is called with the default field any
search(q) ==
    IF q.sql
    THEN [called |-> FALSE, field |-> <<>>, likes |-> {}, aliases |-> EmptyDict,
          elems |-> <<[expr |-> q.pattern, policy |-> "sql"]>>, values |-> <<>>]
    ELSE LET c == query_to_sql(q, FieldAny, SearchLikes(q.table), SearchAliases(q.table))
         IN  [called |-> TRUE, field |-> c.field, likes |-> SearchLikes(q.table),
              aliases |-> SearchAliases(q.table), elems |-> c.elems, values |-> c.values]

\* an element of query_elems as text: the WHERE clause as typed, or the
\* comparison of query_to_sql with one placeholder for its value
ElemText(e) ==
    IF e.policy = "sql" THEN e.expr
    ELSE e.expr \o <<" ", "l", "i", "k", "e", " ", "?">>

\* query = " ".join(query_elems): the predicate handed to select_sql
PredicateText(c) == Join([i \in 1..Len(c.elems) |-> ElemText(c.elems[i])], <<" ">>)

----------------------------------------------------------------------------
(* Specification SpecQuery: search() on every table and field *)

\* the fields a term is scoped to (<<>>: none) and the patterns tried
QueryFields ==
    {<<>>, FieldAny, FieldAuthor} \cup
    {LowerStr(c) : c \in {ColID, ColUSERNAME, ColTITLE, ColFOLDERS, ColDATE}}

\* tom, cat, and a text with a question mark: id=?
QueryPatterns == {<<"t", "o", "m">>, <<"c", "a", "t">>, <<"i", "d", "=", "?">>}

QueryInit ==
    /\ query \in [table : Tables, field : QueryFields, pattern : QueryPatterns,
                  sql : BOOLEAN]
    /\ compiled = NoCompiled
    /\ ArgsAtRest /\ RunAtRest /\ SearchAtRest /\ AddAtRest /\ RenderAtRest /\ CallAtRest

SearchCompile ==
    /\ compiled = NoCompiled
    /\ compiled' = search(query)
    /\ UNCHANGED <<query, argsVars, runVars, searchVars, addVars, renderVars, callVars>>

QueryNext == SearchCompile

SpecQuery == QueryInit /\ [][QueryNext]_vars

----------------------------------------------------------------------------
(* console/database.py: the values of a record as text *)

\* the one character outside ASCII the records hold: e with an acute accent,
\* two bytes in UTF-8 and one cell wide
EAcute == "e-acute"

DigitChars == <<"0", "1", "2", "3", "4", "5", "6", "7", "8", "9">>

\* str(n) of a number below 100
IntToStr(n) ==
    IF n < 10 THEN <<DigitChars[n + 1]>>
    ELSE <<DigitChars[(n \div 10) + 1], DigitChars[(n % 10) + 1]>>

\* a value of a record: kind "int" (n the number), "str" (s the string),
\* "list" (items its strings) or "set" (items its strings in the order the set
\* iterates them)
IsCollection(value) == value.kind \in {"list", "set"}

\* a mutation: the elements of a list are joined by commas
FormatValueCommas(value) ==
    IF IsCollection(value) THEN Join(value.items, <<",">>)
    ELSE IF value.kind = "int" THEN IntToStr(value.n) ELSE value.s

\* format_value: " ".join(value) for a list or a set, str(value) otherwise
format_value(value) ==
    IF IsCollection(value) THEN Join(value.items, <<" ">>)
    ELSE IF value.kind = "int" THEN IntToStr(value.n) ELSE value.s

\* csv.writer, QUOTE_MINIMAL: a field holding the delimiter, a quote or a
\* line break is put in quotes, its quotes doubled
CsvNeedsQuotes(field, delimiter) ==
    \E i \in 1..Len(field) : field[i] \in {delimiter, "\"", "\r", "\n"}

RECURSIVE DoubleQuotes(_)
DoubleQuotes(field) ==
    IF field = <<>> THEN <<>>
    ELSE (IF Head(field) = "\"" THEN <<"\"", "\"">> ELSE <<Head(field)>>)
         \o DoubleQuotes(Tail(field))

CsvField(field, delimiter) ==
    IF CsvNeedsQuotes(field, delimiter)
    THEN <<"\"">> \o DoubleQuotes(field) \o <<"\"">>
    ELSE field

\* writer.writerow(fields): one write of the line; a row of one empty field
\* is written as ""
CsvRow(fields, delimiter) ==
    IF fields = <<<<>>>> THEN <<"\"", "\"", "\r", "\n">>
    ELSE Join([i \in 1..Len(fields) |-> CsvField(fields[i], delimiter)], <<delimiter>>)
         \o <<"\r", "\n">>

\* json.dumps of one character of a string: quotes and backslashes are
\* escaped, characters outside ASCII written as \uXXXX
JsonChar(c) ==
    CASE c = "\"" -> <<"\\", "\"">>
      [] c = "\\" -> <<"\\", "\\">>
      [] c = EAcute -> <<"\\", "u", "0", "0", "e", "9">>
      [] OTHER -> <<c>>

RECURSIVE JsonChars(_)
JsonChars(str) == IF str = <<>> THEN <<>> ELSE JsonChar(Head(str)) \o JsonChars(Tail(str))

JsonString(str) == <<"\"">> \o JsonChars(str) \o <<"\"">>

\* json.dumps cannot serialise a set: TypeError
JsonSerialisable(record) == \A i \in 1..Len(record) : record[i].kind # "set"

JsonValue(value, item_separator) ==
    CASE value.kind = "int" -> IntToStr(value.n)
      [] value.kind = "str" -> JsonString(value.s)
      [] OTHER -> <<"[">> \o Join([i \in 1..Len(value.items) |-> JsonString(value.items[i])],
                                  item_separator) \o <<"]">>

\* dumps(entry, separators=(item_separator, key_separator)) of a record with
\* the given columns
DumpsWith(columns, record, item_separator, key_separator) ==
    <<"{">> \o Join([i \in 1..Len(record) |->
                       JsonString(columns[i]) \o key_separator
                       \o JsonValue(record[i], item_separator)], item_separator)
    \o <<"}">>

\* dumps(entry, separators=(",", ":"))
Dumps(columns, record) == DumpsWith(columns, record, <<",">>, <<":">>)

\* dumps(results) of a list of records, with the default separators
DumpsList(columns, records) ==
    <<"[">> \o Join([i \in 1..Len(records) |->
                       DumpsWith(columns, records[i], <<",", " ">>, <<":", " ">>)],
                   <<",", " ">>) \o <<"]">>

----------------------------------------------------------------------------
(* console/database.py: the lines of print_table *)

\* s[:n]: a negative n counts from the end
Take(s, n) ==
    LET stop == IF n < 0 THEN Len(s) + n ELSE n
    IN  SubSeq(s, 1, IF stop < 0 THEN 0 ELSE IF stop < Len(s) THEN stop ELSE Len(s))

\* s[:n or None]
TakeOrAll(s, n) == IF n = 0 THEN s ELSE Take(s, n)

Repeat(c, n) == [i \in 1..n |-> c]

\* f"{s:<{w}}" and f"{s:^{w}}"
PadRight(s, w) == IF Len(s) >= w THEN s ELSE s \o Repeat(" ", w - Len(s))

Center(s, w) ==
    IF Len(s) >= w THEN s
    ELSE Repeat(" ", (w - Len(s)) \div 2) \o s \o Repeat(" ", (w - Len(s)) - (w - Len(s)) \div 2)

\* str.encode(): the bytes of a string in UTF-8
RECURSIVE Encode(_)
Encode(s) ==
    IF s = <<>> THEN <<>>
    ELSE (IF Head(s) = EAcute THEN <<"0xC3", "0xA9">> ELSE <<Head(s)>>) \o Encode(Tail(s))

\* what bytes.decode(errors="replace") puts for bytes that are no character
Replacement == "U+FFFD"

RECURSIVE Decode(_)
Decode(b) ==
    IF b = <<>> THEN <<>>
    ELSE IF Head(b) = "0xC3"
         THEN IF Len(b) >= 2 /\ b[2] = "0xA9"
              THEN <<EAcute>> \o Decode(SubSeq(b, 3, Len(b)))
              ELSE <<Replacement>> \o Decode(Tail(b))
         ELSE IF Head(b) = "0xA9" THEN <<Replacement>> \o Decode(Tail(b))
              ELSE <<Head(b)>> \o Decode(Tail(b))

\* fit_string: cut the bytes of value at width, 0 or None meaning no limit
fit_string(value, width) == IF width # 0 THEN Decode(Take(Encode(value), width)) ELSE value

\* s.split(sep) for a separator of one character
RECURSIVE SplitAll(_, _)
SplitAll(s, sep) ==
    IF ~Contains(s, sep) THEN <<s>>
    ELSE <<SubSeq(s, 1, IndexOf(s, sep) - 1)>>
         \o SplitAll(SubSeq(s, IndexOf(s, sep) + 1, Len(s)), sep)

\* wcswidth: every character of the records is one cell wide
WcsWidth(s) == Len(s)

RECURSIVE SumLen(_)
SumLen(cells) == IF cells = <<>> THEN 0 ELSE Len(Head(cells)) + SumLen(Tail(cells))

\* style(text, fg=..., bold=True): the text between two escape sequences
Style(text, fg) == <<fg>> \o text \o <<"reset">>

\* a mutation: the line break of echo is left out
EchoWithoutLineBreak(message) == message

\* echo(message): one write of the message and a line break
Echo(message) == message \o <<"\n">>

\* terminal_width: None (0) with --ignore-width or when the size is unknown
TerminalWidth(layout) == IF layout.ignore_width THEN 0 ELSE layout.terminal

\* the widths of the headers: the first column narrow or not, the others 0
Widths(layout, columns) ==
    [i \in 1..Len(columns) |-> IF i = 1 /\ layout.narrow /\ Len(columns) > 1 THEN 3 ELSE 0]

\* headers = [f"{h[:w or None]:^{w}}" for h, w in headers]
HeaderCells(layout, columns) ==
    [i \in 1..Len(columns) |->
        Center(TakeOrAll(columns[i], Widths(layout, columns)[i]), Widths(layout, columns)[i])]

\* ("-+-".join("-" * len(h) for h in headers) + "-")[:terminal_width]
RuleLine(cells, width) ==
    TakeOrAll(Join([i \in 1..Len(cells) |-> Repeat("-", Len(cells[i]))], <<"-", "+", "-">>)
              \o <<"-">>, width)

\* print_table without colour: the header line, the rule, the line of a record
PlainHeaderLine(layout, columns) ==
    Echo(TakeOrAll(Join(HeaderCells(layout, columns), <<" ", "|", " ">>), TerminalWidth(layout)))

PlainRuleLine(layout, columns) ==
    Echo(RuleLine(HeaderCells(layout, columns), TerminalWidth(layout)))

PlainRow(layout, columns, record) ==
    LET n == IF Len(record) < Len(columns) THEN Len(record) ELSE Len(columns)
        w == Widths(layout, columns)
        cells == [i \in 1..n |-> PadRight(fit_string(format_value(record[i]), w[i]), w[i])]
    IN  Echo(fit_string(Join(cells, <<" ", "|", " ">>), TerminalWidth(layout)))

\* print_table with colour: terminal_width_total, the header cells cut to it
TerminalWidthTotal(layout, columns) ==
    IF TerminalWidth(layout) # 0 THEN TerminalWidth(layout) - 3 * (Len(columns) - 1) ELSE 0

\* "\\0".join(headers)[:terminal_width_total].split("\\0"), terminal_width_total
\* being None when the width is
ColourHeaderCells(layout, columns) ==
    LET joined == Join(HeaderCells(layout, columns), <<"\\0">>)
    IN  SplitAll(IF TerminalWidth(layout) = 0 THEN joined
                 ELSE Take(joined, TerminalWidthTotal(layout, columns)), "\\0")

ColourHeaderLine(layout, columns) ==
    LET cells == ColourHeaderCells(layout, columns)
    IN  Echo(Join([i \in 1..Len(cells) |-> Style(cells[i], "yellow")],
                  Style(<<" ", "|", " ">>, "bright_black")))

ColourRuleLine(layout, columns) ==
    Echo(Style(RuleLine(ColourHeaderCells(layout, columns), TerminalWidth(layout)),
               "bright_black"))

ColourRow(layout, columns, record) ==
    LET n == IF Len(record) < Len(columns) THEN Len(record) ELSE Len(columns)
        w == Widths(layout, columns)
        values == [i \in 1..n |-> PadRight(TakeOrAll(format_value(record[i]), w[i]), w[i])]
        limit == TerminalWidthTotal(layout, columns) + Len(values) - 1
        wc == SumLen([i \in 1..n |-> Repeat("c", WcsWidth(values[i]))])
        cut == IF TerminalWidth(layout) # 0 /\ wc > TerminalWidthTotal(layout, columns)
               THEN IF SumLen(values) # wc
                    THEN SplitAll(Decode(Take(Encode(Join(values, <<"\\0">>)), limit)), "\\0")
                    ELSE SplitAll(Take(Join(values, <<"\\0">>), limit), "\\0")
               ELSE values
    IN  Echo(Join(cut, Style(<<" ", "|", " ">>, "bright_black")))

----------------------------------------------------------------------------
(* Specification SpecRender: one renderer on one cursor *)

ColTAGS == <<"T", "A", "G", "S">>

\* the records of a cursor over ID and TAGS: a list, a string with the csv
\* delimiter and an empty list, a string with a quote and a character
\* outside ASCII, a set
IntValue(n) == [kind |-> "int", n |-> n, s |-> <<>>, items |-> <<>>]
StrValue(str) == [kind |-> "str", n |-> 0, s |-> str, items |-> <<>>]
ListValue(items) == [kind |-> "list", n |-> 0, s |-> <<>>, items |-> items]
SetValue(items) == [kind |-> "set", n |-> 0, s |-> <<>>, items |-> items]

RecordList == <<IntValue(12), ListValue(<<<<"c", "a", "t">>, <<"d", "o", "g">>>>)>>
RecordComma == <<StrValue(<<"a", ",", "b">>), ListValue(<<>>)>>
RecordQuote == <<StrValue(<<EAcute, "\"", "x", "y", "z">>), ListValue(<<<<"x">>>>)>>
RecordSet == <<IntValue(3), SetValue(<<<<"y">>, <<"x">>>>)>>

\* a cursor: its columns and the records it yields; a cursor without columns
\* yields empty records
Cursors ==
    [columns : {<<ColID, ColTAGS>>},
     records : SeqsUpTo({RecordList, RecordComma, RecordQuote, RecordSet}, MaxRecords)]
    \cup [columns : {<<>>}, records : SeqsUpTo({<<>>}, MaxRecords) \ {<<>>}]

TableRenderers == {"table_colour", "table_plain"}
StreamRenderers == {"csv", "tsv", "json"}
ConsoleRenderers == {"console_json", "console_list"}

Layouts == [narrow : BOOLEAN, terminal : {0, 8}, ignore_width : BOOLEAN]

RenderInit ==
    /\ \E c \in Cursors :
        \/ rin \in [renderer : TableRenderers, columns : {c.columns},
                    records : {c.records}, layout : Layouts]
        \/ rin \in [renderer : StreamRenderers \cup ConsoleRenderers, columns : {c.columns},
                    records : {c.records}, layout : {NoLayout}]
    /\ rpc = "idle" /\ pulled = 0 /\ held = <<>> /\ out = <<>> /\ total = 0
    /\ ArgsAtRest /\ RunAtRest /\ SearchAtRest /\ QueryAtRest /\ AddAtRest /\ CallAtRest

RenderRest == <<argsVars, runVars, searchVars, queryVars, addVars, callVars>>

Delimiter(renderer) == IF renderer = "csv" THEN "," ELSE "\t"

\* the first write of print_table, print_csv and print_json
RenderOpen ==
    /\ rpc = "idle" /\ rin.renderer \in TableRenderers \cup StreamRenderers
    /\ out' = CASE rin.renderer = "table_colour" ->
                       <<ColourHeaderLine(rin.layout, rin.columns)>>
                [] rin.renderer = "table_plain" ->
                       <<PlainHeaderLine(rin.layout, rin.columns)>>
                [] rin.renderer = "json" -> <<<<"[">>>>
                [] OTHER -> <<CsvRow(rin.columns, Delimiter(rin.renderer))>>
    /\ rpc' = CASE rin.renderer \in TableRenderers -> "rule"
                [] rin.renderer = "json" -> "first"
                [] OTHER -> "pull"
    /\ UNCHANGED <<rin, pulled, held, total, RenderRest>>

\* print_table: the rule under the header
RenderRule ==
    /\ rpc = "rule"
    /\ out' = Append(out, IF rin.renderer = "table_colour"
                          THEN ColourRuleLine(rin.layout, rin.columns)
                          ELSE PlainRuleLine(rin.layout, rin.columns))
    /\ rpc' = "pull"
    /\ UNCHANGED <<rin, pulled, held, total, RenderRest>>

\* the next record of the cursor: next(results.entries, None) of print_json,
\* which goes on without the record when it is falsy, and the for loops
RenderPull ==
    /\ rpc \in {"first", "pull"}
    /\ IF pulled < Len(rin.records)
       THEN /\ pulled' = pulled + 1
            /\ IF rpc = "first" /\ rin.records[pulled + 1] = <<>>
               THEN held' = <<>> /\ rpc' = "pull"
               ELSE /\ held' = <<rin.records[pulled + 1]>>
                    /\ rpc' = IF rpc = "first" THEN "write_first" ELSE "write"
       ELSE /\ rpc' = IF rin.renderer = "json" THEN "close" ELSE "done"
            /\ UNCHANGED <<pulled, held>>
    /\ UNCHANGED <<rin, out, total, RenderRest>>

\* the body of the loops: results_total += 1, then the write of the record
RenderWrite ==
    /\ rpc \in {"write_first", "write"}
    /\ total' = total + 1
    /\ held' = <<>>
    /\ IF rin.renderer = "json" /\ ~JsonSerialisable(held[1])
       THEN rpc' = "raised" /\ UNCHANGED out
       ELSE /\ rpc' = "pull"
            /\ out' = Append(out,
                 CASE rin.renderer = "table_colour" ->
                          ColourRow(rin.layout, rin.columns, held[1])
                   [] rin.renderer = "table_plain" ->
                          PlainRow(rin.layout, rin.columns, held[1])
                   [] rin.renderer = "json" ->
                          (IF rpc = "write" THEN <<",">> ELSE <<>>)
                          \o Dumps(rin.columns, held[1])
                   [] OTHER ->
                          CsvRow([i \in 1..Len(held[1]) |-> format_value(held[1][i])],
                                 Delimiter(rin.renderer)))
    /\ UNCHANGED <<rin, pulled, RenderRest>>

\* print_json: file.write("]")
RenderClose ==
    /\ rpc = "close"
    /\ out' = Append(out, <<"]">>)
    /\ rpc' = "done"
    /\ UNCHANGED <<rin, pulled, held, total, RenderRest>>

\* the rendering is interrupted between two writes
RenderInterrupt ==
    /\ rpc \in {"rule", "first", "pull", "write_first", "write", "close"}
    /\ rpc' = "interrupted"
    /\ UNCHANGED <<rin, pulled, held, out, total, RenderRest>>

\* print_items / print_users of commands.py: one line for each record of the
\* list
print_func(results) ==
    [i \in 1..Len(results) |->
        Echo(Join([j \in 1..Len(results[i]) |-> format_value(results[i][j])], <<" ">>))]

\* console.py database_search: results = search(...), a list
ConsoleFetch ==
    /\ rpc = "idle" /\ rin.renderer \in ConsoleRenderers
    /\ pulled' = Len(rin.records)
    /\ held' = rin.records
    /\ rpc' = "print"
    /\ UNCHANGED <<rin, out, total, RenderRest>>

\* console.py database_search: print(dumps(results)), or print_func(results)
\* and the line with len(results)
ConsolePrint ==
    /\ rpc = "print"
    /\ held' = <<>>
    /\ IF rin.renderer = "console_json"
       THEN IF \A i \in 1..Len(held) : JsonSerialisable(held[i])
            THEN /\ out' = <<Echo(DumpsList(rin.columns, held))>>
                 /\ rpc' = "done" /\ UNCHANGED total
            ELSE rpc' = "raised" /\ UNCHANGED <<out, total>>
       ELSE /\ out' = print_func(held)
                      \o <<Echo(<<"F", "o", "u", "n", "d", " ">> \o IntToStr(Len(held)))>>
            /\ total' = Len(held)
            /\ rpc' = "done"
    /\ UNCHANGED <<rin, pulled, RenderRest>>

RenderNext ==
    \/ RenderOpen \/ RenderRule \/ RenderPull \/ RenderWrite \/ RenderClose
    \/ RenderInterrupt \/ ConsoleFetch \/ ConsolePrint

SpecRender == RenderInit /\ [][RenderNext]_vars

----------------------------------------------------------------------------
(* Specification SpecTable: print_table on terminals of every width *)

\* the widths of the terminal: unknown (0), narrower than the separators of
\* two and of three columns, as wide as them, and wider
TerminalWidths == {0, 1, 2, 3, 4, 6, 8, 30}

TableLayouts == [narrow : BOOLEAN, terminal : TerminalWidths, ignore_width : BOOLEAN]

\* cursors over no column, one, two and three columns
TableCursors ==
    Cursors
    \cup [columns : {<<ColID>>}, records : SeqsUpTo({<<IntValue(12)>>}, MaxRecords)]
    \cup [columns : {<<ColID, ColTAGS, ColTITLE>>},
          records : SeqsUpTo({RecordList \o <<StrValue(<<"a", "b", "c", "d">>)>>}, MaxRecords)]

TableInit ==
    /\ \E c \in TableCursors :
           rin \in [renderer : TableRenderers, columns : {c.columns},
                    records : {c.records}, layout : TableLayouts]
    /\ rpc = "idle" /\ pulled = 0 /\ held = <<>> /\ out = <<>> /\ total = 0
    /\ ArgsAtRest /\ RunAtRest /\ SearchAtRest /\ QueryAtRest /\ AddAtRest /\ CallAtRest

TableNext == RenderOpen \/ RenderRule \/ RenderPull \/ RenderWrite \/ RenderInterrupt

SpecTable == TableInit /\ [][TableNext]_vars

----------------------------------------------------------------------------
(* console/database.py: database_search from its options to its output *)

\* a mutation: the name of a column is cut to its width before it is selected
SelectedColumnsCut(hs) == [i \in 1..Len(hs) |-> TakeOrAll(hs[i].name, hs[i].width)]

\* [h for h, _ in headers]: the columns search() selects
SelectedColumns(hs) == [i \in 1..Len(hs) |-> hs[i].name]

\* the two rows of the table under the selected columns
SearchRows(names) ==
    [r \in 1..2 |->
        [j \in 1..Len(names) |->
            IF names[j] = ColFOLDERS THEN ListValue(<<<<"a">>, <<"b", IntToStr(r)[1]>>>>)
            ELSE StrValue(LowerStr(names[j]) \o IntToStr(r))]]

\* print_csv(results, file, delimiter): its writes
print_csv(results, delimiter) ==
    <<CsvRow(results.columns, delimiter)>>
    \o [i \in 1..Len(results.records) |->
           CsvRow([j \in 1..Len(results.records[i]) |-> format_value(results.records[i][j])],
                  delimiter)]

\* print_json(results, file): its writes; the first record is written when it
\* is not empty, the others with a comma before them
print_json(results) ==
    LET rs == results.records
    IN  <<<<"[">>>>
        \o (IF rs # <<>> /\ rs[1] # <<>> THEN <<Dumps(results.columns, rs[1])>> ELSE <<>>)
        \o [i \in 1..(Len(rs) - 1) |-> <<",">> \o Dumps(results.columns, rs[i + 1])]
        \o <<<<"]">>>>

\* database_search: column_callback, the headers, search(), then the renderer
\* of --output with the arguments it is given.  For a table the record keeps
\* the arguments of print_table, for csv, tsv and json the writes.
database_search(t, col, output, ignore_width) ==
    LET cb == column_callback(col)
        hs == SearchHeaders(t, cb.list)
        results == [columns |-> SelectedColumns(hs.list),
                    records |-> SearchRows(SelectedColumns(hs.list))]
        failed(e) == [NoOutput EXCEPT !.error = e]
    IN  IF cb.error # "none" THEN failed(cb.error)
        ELSE IF hs.error # "none" THEN failed(hs.error)
        ELSE CASE output = "table" ->
                      [error |-> "none", fn |-> "print_table", columns |-> results.columns,
                       headers |-> hs.list, ignore_width |-> ignore_width, writes |-> <<>>]
               [] output = "csv" ->
                      [error |-> "none", fn |-> "print_csv", columns |-> results.columns,
                       headers |-> <<>>, ignore_width |-> FALSE,
                       writes |-> print_csv(results, ",")]
               [] output = "tsv" ->
                      [error |-> "none", fn |-> "print_csv", columns |-> results.columns,
                       headers |-> <<>>, ignore_width |-> FALSE,
                       writes |-> print_csv(results, "\t")]
               [] OTHER ->
                      [error |-> "none", fn |-> "print_json", columns |-> results.columns,
                       headers |-> <<>>, ignore_width |-> FALSE,
                       writes |-> print_json(results)]

----------------------------------------------------------------------------
(* Specification SpecWidths: two searches that differ in their width hints *)

\* the --column values of the first search: @, id, ID,10 and title,5
WidthColumnValues ==
    { <<"@">>, <<"i", "d">>, <<"I", "D", ",", "1", "0">>, <<"t", "i", "t", "l", "e", ",", "5">> }

\* the width hints of the second search: none, 2, and one that is no number
WidthHints == { <<>>, <<",", "2">>, <<",", "x">> }

\* the same values with other width hints
Rehinted(col) ==
    { c \in SeqsUpTo({Split1(Strip(v), ",")[1] \o h : v \in WidthColumnValues, h \in WidthHints},
                     MaxColumns) :
        /\ Len(c) = Len(col)
        /\ \A i \in 1..Len(col) :
               Split1(Strip(c[i]), ",")[1] = Split1(Strip(col[i]), ",")[1] }

Outputs == {"table", "csv", "tsv", "json"}

WidthsInit ==
    /\ column \in SeqsUpTo(WidthColumnValues, MaxColumns)
    /\ table \in Tables
    /\ pair \in [column : Rehinted(column), output : Outputs,
                 ignore_width : BOOLEAN, ignore_width2 : BOOLEAN]
    /\ headers = NoHeaders /\ shown = NoShown
    /\ ArgsAtRest /\ RunAtRest /\ QueryAtRest /\ AddAtRest /\ RenderAtRest /\ CallAtRest

WidthsRest ==
    <<table, column, headers, pair, argsVars, runVars, queryVars, addVars, renderVars,
      callVars>>

\* the first search
SearchFirst ==
    /\ shown.a = NoOutput
    /\ shown' = [shown EXCEPT !.a = database_search(table, column, pair.output,
                                                    pair.ignore_width)]
    /\ UNCHANGED WidthsRest

\* the second search
SearchSecond ==
    /\ shown.b = NoOutput
    /\ shown' = [shown EXCEPT !.b = database_search(table, pair.column, pair.output,
                                                    pair.ignore_width2)]
    /\ UNCHANGED WidthsRest

WidthsNext == SearchFirst \/ SearchSecond

SpecWidths == WidthsInit /\ [][WidthsNext]_vars

----------------------------------------------------------------------------
(* console/database.py: database add *)

\* db_table.key: the first column of each table
KeyColumn(t) == TableColumns(t)[1]

\* data = {k.upper(): v for k, v in data.items()}
UpperKeys(keys) == {UpperStr(k) : k \in keys}

\* a mutation: no column is ever found missing
MissingFieldsNone(t, keys) == {}

\* any(c.name.upper() not in data for c in db_table.columns)
MissingFields(t, keys) == {c \in ColumnSet(t) : UpperStr(c) \notin keys}

\* the error of the missing-fields branch: building the message applies
\* str.upper to the columns themselves, which raises TypeError unless a
\* column is a str; otherwise BadParameter is raised
MissingFieldsErrors == {"BadParameter:missing", "TypeError"}

\* the keys of the entries of a table
KeysIn(entries) == {e[1] : e \in entries}

\* db_table.insert(entry, replace=replace) on a table without the key, or
\* with replace set
Insert(entries, id) == {e \in entries : e[1] # id} \cup {<<id, "new">>}

\* the body of database_add after load(file): what it raises ("ok": nothing)
\* and the tables it leaves
AddBody(in, st) ==
    LET t == in.table
        keys == UpperKeys(in.data.keys)
    IN  IF in.data.kind # "object"
        THEN [results |-> {"AttributeError"}, store |-> st]
        ELSE IF MissingFields(t, keys) # {}
        THEN [results |-> MissingFieldsErrors, store |-> st]
        ELSE IF KeyColumn(t) \notin keys
        THEN [results |-> {"KeyError"}, store |-> st]
        ELSE IF ~in.replace /\ in.data.id \in KeysIn(st[t])
        THEN [results |-> {"BadParameter:exists"}, store |-> st]
        ELSE IF t = "SUBMISSIONS"
        \* get_submission_files(data["id"]): the keys of data are upper case
        THEN [results |-> {"KeyError"}, store |-> st]
        ELSE [results |-> {"ok"}, store |-> [st EXCEPT ![t] = Insert(@, in.data.id)]]

----------------------------------------------------------------------------
(* Specification SpecAdd: database add on every table *)

\* the tables before the command: one entry each, under the key k1
InitialStore == [t \in Tables |-> {<<"k1", "old">>}]

\* the names FILE gives its fields: every column in lower case, every column
\* as the table names it, all but the last column, all but the key column
DataKeys(t) ==
    LET lower == {LowerStr(c) : c \in ColumnSet(t)}
    IN  { lower, ColumnSet(t),
          lower \ {LowerStr(TableColumns(t)[Len(TableColumns(t))])},
          lower \ {LowerStr(KeyColumn(t))} }

AddInit ==
    /\ \E t \in Tables : \E ks \in DataKeys(t) :
           addIn \in [table : {t},
                      data : [kind : {"object", "list"}, keys : {ks}, id : {"k1", "k2"}],
                      replace : BOOLEAN, versionOK : BOOLEAN]
    /\ addPc = "idle" /\ store = InitialStore /\ addLog = <<>> /\ addResult = "none"
    /\ ArgsAtRest /\ RunAtRest /\ SearchAtRest /\ QueryAtRest /\ RenderAtRest /\ CallAtRest

\* database_add: database(), then add_history
AddStart ==
    /\ addPc = "idle" /\ addIn # NoAdd
    /\ IF click_database(addIn.versionOK, TRUE)
       THEN addResult' = "VersionError" /\ addPc' = "done" /\ UNCHANGED addLog
       ELSE /\ addLog' = Append(addLog, <<"add", addIn.table, addIn.replace>>)
            /\ addPc' = "load" /\ UNCHANGED addResult
    /\ UNCHANGED <<addIn, store, argsVars, runVars, searchVars, queryVars, renderVars,
                   callVars>>

\* database_add: load(file), the checks of data, the insertion, the commit
AddApply ==
    /\ addPc = "load"
    /\ LET b == AddBody(addIn, store)
       IN  /\ addResult' \in b.results
           /\ store' = b.store
    /\ addPc' = "done"
    /\ UNCHANGED <<addIn, addLog, argsVars, runVars, searchVars, queryVars, renderVars,
                   callVars>>

AddNext == AddStart \/ AddApply

SpecAdd == AddInit /\ [][AddNext]_vars

----------------------------------------------------------------------------
(* console/database.py: database add, the files of a submission *)

\* sub_file and sub_thumb as the branches on the two options leave them: the
\* thumbnail branches assign sub_file as well, sub_thumb stays None
SubmissionBytes(in) ==
    LET after_file == IF in.submission_file THEN "content of --submission-file"
                      ELSE IF in.file_orig THEN "existing file" ELSE "None"
    IN  [sub_file |-> IF in.submission_thumbnail THEN "content of --submission-thumbnail"
                      ELSE IF in.thumb_orig THEN "existing thumbnail" ELSE after_file,
         sub_thumb |-> "None"]

NotSaved(e) == [handler |-> "database_add", error |-> e, saved |-> FALSE,
                sub_file |-> "None", sub_thumb |-> "None"]

\* the submissions branch of database_add on the data of FILE: the checks,
\* get_submission_files(data["id"]) on the upper-cased keys, the bytes, and
\* save_submission(data, sub_file, sub_thumb, replace=replace)
AddSubmission(in) ==
    LET keys == UpperKeys(in.keys)
    IN  IF MissingFields("SUBMISSIONS", keys) # {}
        THEN {NotSaved(e) : e \in MissingFieldsErrors}
        ELSE IF ~in.replace /\ in.exists
        THEN {NotSaved("BadParameter:exists")}
        ELSE IF LowerStr(ColID) \notin keys
        THEN {NotSaved("KeyError")}
        ELSE {[handler |-> "database_add", error |-> "none", saved |-> TRUE,
               sub_file |-> SubmissionBytes(in).sub_file,
               sub_thumb |-> SubmissionBytes(in).sub_thumb]}

----------------------------------------------------------------------------
(* Specification SpecAddFiles: database add submissions with every choice of *)
(* files                                                                     *)

AddFilesInit ==
    /\ cin \in [handler : {"database_add"}, keys : DataKeys("SUBMISSIONS"),
                exists : BOOLEAN, replace : BOOLEAN,
                submission_file : BOOLEAN, submission_thumbnail : BOOLEAN,
                file_orig : BOOLEAN, thumb_orig : BOOLEAN]
    /\ cpc = "idle" /\ cout = NoCall
    /\ OthersAtRest

AddFilesCall ==
    /\ cpc = "idle"
    /\ cout' \in AddSubmission(cin)
    /\ cpc' = "done"
    /\ UNCHANGED <<cin, CallRest>>

AddFilesNext == AddFilesCall

SpecAddFiles == AddFilesInit /\ [][AddFilesNext]_vars

----------------------------------------------------------------------------
(* console.py: download update, the users and folders it is limited to *)

At == <<"@">>

\* the match of download_update on the positional arguments: users and
\* folders stay empty when no case matches
UpdateSelection(args) ==
    CASE args = <<>> \/ args = <<At, At>> -> [users |-> <<>>, folders |-> <<>>]
      [] Len(args) = 2 /\ args[2] = At ->
             [users |-> SplitAll(args[1], ","), folders |-> <<>>]
      [] Len(args) = 2 /\ args[1] = At ->
             [users |-> <<>>, folders |-> SplitAll(args[2], ",")]
      [] Len(args) = 2 ->
             [users |-> SplitAll(args[1], ","), folders |-> SplitAll(args[2], ",")]
      [] OTHER -> [users |-> <<>>, folders |-> <<>>]

\* download_update up to its call of download_users_update(db, users,
\* folders, int(opts.get("stop", 1)), ...)
DownloadUpdateCall(args_raw) ==
    LET p == parse_args(args_raw)
        sel == UpdateSelection(p.args)
    IN  IF OptStop \in DOMAIN p.opts /\ ~IntParses(p.opts[OptStop])
        THEN [handler |-> "download_update", error |-> "ValueError", called |-> FALSE,
              users |-> sel.users, folders |-> sel.folders]
        ELSE [handler |-> "download_update", error |-> "none", called |-> TRUE,
              users |-> sel.users, folders |-> sel.folders]

----------------------------------------------------------------------------
(* Specification SpecUpdate: download update on every shape of arguments *)

\* the tokens tried: @  tom,jerry  tom  gallery,scraps  stop=5  stop=x
UpdateTokens ==
    { At, <<"t", "o", "m", ",", "j", "e", "r", "r", "y">>, <<"t", "o", "m">>,
      <<"g", "a", "l", "l", "e", "r", "y", ",", "s", "c", "r", "a", "p", "s">>,
      <<"s", "t", "o", "p", "=", "5">>, <<"s", "t", "o", "p", "=", "x">> }

UpdateInit ==
    /\ cin \in [handler : {"download_update"}, args : SeqsUpTo(UpdateTokens, MaxArgs)]
    /\ cpc = "idle" /\ cout = NoCall
    /\ OthersAtRest

UpdateCall ==
    /\ cpc = "idle"
    /\ cout' = DownloadUpdateCall(cin.args)
    /\ cpc' = "done"
    /\ UNCHANGED <<cin, CallRest>>

UpdateNext == UpdateCall

SpecUpdate == UpdateInit /\ [][UpdateNext]_vars

----------------------------------------------------------------------------
(* console/database.py: database edit *)

\* x & 0b01 and x & 0b10 on a FILESAVED value
Bit01(x) == x % 2
Bit10(x) == 2 * ((x \div 2) % 2)

\* (entry[f] & 0b10) + 0b01: computed from the entry as it was read
ThumbnailSaved(entry_saved, data_saved) == Bit10(entry_saved) + 1

\* (entry[f] & 0b01) + 0b10
FileSaved(entry_saved) == Bit01(entry_saved) + 2

\* the bytes a read() of --submission-file gives: its content the first
\* time, nothing once the stream is at its end
ReadSubmissionFile(already_read) == IF already_read THEN "nothing" ELSE "file bytes"

NoEdit ==
    [handler |-> "database_edit", error |-> "none", data |-> "unread", history |-> FALSE,
     read |-> FALSE, saves |-> <<>>, filesaved |-> [set |-> FALSE, value |-> 0],
     fileext |-> FALSE,
     updated |-> FALSE]

----------------------------------------------------------------------------
(* Specification SpecEdit: database edit with every choice of options *)

\* FILE: omitted, or holding an empty object, an object with fields, a list
EditFiles == {"omitted", "emptyobject", "object", "list"}

EditInit ==
    /\ cin \in [handler : {"database_edit"}, table : Tables, exists : BOOLEAN,
                file : EditFiles, submission_file : BOOLEAN,
                submission_thumbnail : BOOLEAN, filesaved : 0..3]
    /\ cpc = "idle" /\ cout = NoEdit
    /\ OthersAtRest

EditRaise(e) == cout' = [cout EXCEPT !.error = e] /\ cpc' = "done"

\* data = load(file); file.close()
EditLoad ==
    /\ cpc = "idle" /\ cin.handler = "database_edit"
    /\ IF cin.file = "omitted"
       THEN EditRaise("AttributeError")
       ELSE cout' = [cout EXCEPT !.data = cin.file] /\ cpc' = "check"
    /\ UNCHANGED <<cin, CallRest>>

\* the two checks of data
EditCheck ==
    /\ cpc = "check"
    /\ IF cout.data = "emptyobject" /\ cin.table # "SUBMISSIONS"
       THEN EditRaise("BadParameter:empty")
       ELSE IF cout.data = "list"
            THEN EditRaise("BadParameter:format")
            ELSE cpc' = "history" /\ UNCHANGED cout
    /\ UNCHANGED <<cin, CallRest>>

\* add_history(db, ctx, ...)
EditHistory ==
    /\ cpc = "history"
    /\ cout' = [cout EXCEPT !.history = TRUE]
    /\ cpc' = "lookup"
    /\ UNCHANGED <<cin, CallRest>>

\* entry := db_table[_id]
EditLookup ==
    /\ cpc = "lookup"
    /\ IF ~cin.exists THEN EditRaise("BadParameter:id")
       ELSE cpc' = "file" /\ UNCHANGED cout
    /\ UNCHANGED <<cin, CallRest>>

\* if submission_file: save_submission_file(_id, submission_file.read(),
\* "submission", ""), then FILESAVED and FILEEXT are put into data; an entry
\* of the users or journals has no FILESAVED
EditSaveFile ==
    /\ cpc = "file"
    /\ IF ~cin.submission_file
       THEN cpc' = "thumbnail" /\ UNCHANGED cout
       ELSE LET saved == [cout EXCEPT
                             !.read = TRUE,
                             !.saves = Append(@, [name |-> "submission",
                                                  bytes |-> ReadSubmissionFile(cout.read)])]
            IN  IF cin.table # "SUBMISSIONS"
                THEN cout' = [saved EXCEPT !.error = "KeyError"] /\ cpc' = "done"
                ELSE /\ cout' = [saved EXCEPT !.filesaved = [set |-> TRUE,
                                                             value |-> FileSaved(cin.filesaved)],
                                              !.fileext = TRUE]
                     /\ cpc' = "thumbnail"
    /\ UNCHANGED <<cin, CallRest>>

\* if submission_thumbnail: save_submission_file(_id, submission_file.read(),
\* "submission", ""), then FILESAVED is put into data
EditSaveThumbnail ==
    /\ cpc = "thumbnail"
    /\ IF ~cin.submission_thumbnail
       THEN cpc' = "update" /\ UNCHANGED cout
       ELSE IF ~cin.submission_file
            THEN EditRaise("AttributeError")
            ELSE LET saved == [cout EXCEPT
                                  !.read = TRUE,
                                  !.saves = Append(@, [name |-> "submission",
                                                       bytes |-> ReadSubmissionFile(cout.read)])]
                 IN  IF cin.table # "SUBMISSIONS"
                     THEN cout' = [saved EXCEPT !.error = "KeyError"] /\ cpc' = "done"
                     ELSE /\ cout' = [saved EXCEPT
                                         !.filesaved =
                                             [set |-> TRUE,
                                              value |-> ThumbnailSaved(cin.filesaved, @)]]
                          /\ cpc' = "update"
    /\ UNCHANGED <<cin, CallRest>>

\* if data: db_table.update(...)
EditUpdate ==
    /\ cpc = "update"
    /\ cout' = [cout EXCEPT !.updated = cout.data = "object" \/ cout.filesaved.set]
    /\ cpc' = "done"
    /\ UNCHANGED <<cin, CallRest>>

EditNext ==
    \/ EditLoad \/ EditCheck \/ EditHistory \/ EditLookup \/ EditSaveFile
    \/ EditSaveThumbnail \/ EditUpdate

SpecEdit == EditInit /\ [][EditNext]_vars

----------------------------------------------------------------------------
(* console/database.py and console.py: database remove *)

\* the handlers that remove entries: database_remove of the click group, and
\* the three of console.py
ClickRemove == "click_database_remove"
ConsoleRemovers ==
    {"database_remove_users", "database_remove_submissions", "database_remove_journals"}

\* whether the handler commits after each deletion: database_remove_journals
\* has its one commit after the loop
CommitsInLoop(h) == h # "database_remove_journals"

\* whether the handler tests `id_ not in db_table` before it deletes
TestsPresence(h) == h = ClickRemove

NoRemove ==
    [handler |-> "remove", error |-> "none", next |-> 1, entries |-> {},
     persisted |-> {}, reported |-> <<>>, commits |-> 0]

----------------------------------------------------------------------------
(* Specification SpecRemove: database remove on every list of ids *)

\* the entries of the table before the command, and the ids tried: two that
\* are present and one that is not
RemoveEntries == {"1", "2"}
RemoveIds == {"1", "2", "3"}

RemoveInit ==
    /\ cin \in [handler : {ClickRemove} \cup ConsoleRemovers,
                ids : SeqsUpTo(RemoveIds, MaxArgs)]
    /\ cpc = "idle"
    /\ cout = [NoRemove EXCEPT !.entries = RemoveEntries, !.persisted = RemoveEntries]
    /\ OthersAtRest

\* get to the loop
RemoveStart ==
    /\ cpc = "idle" /\ cin.handler \in {ClickRemove} \cup ConsoleRemovers
    /\ cpc' = "loop"
    /\ UNCHANGED <<cin, cout, CallRest>>

\* the next id of the loop: database_remove reports an id that is not in the
\* table and goes on; the handlers of console.py delete without a test, and
\* the deletion of an id that is not there either does nothing or raises
RemoveDelete ==
    /\ cpc = "loop" /\ cout.next <= Len(cin.ids)
    /\ LET id == cin.ids[cout.next]
       IN  IF id \notin cout.entries
           THEN IF TestsPresence(cin.handler)
                THEN /\ cout' = [cout EXCEPT !.reported = Append(@, id), !.next = @ + 1]
                     /\ cpc' = "loop"
                ELSE \/ /\ cout' = [cout EXCEPT !.next = @ + 1]
                        /\ cpc' = IF CommitsInLoop(cin.handler) THEN "commit" ELSE "loop"
                     \/ /\ cout' = [cout EXCEPT !.error = "KeyError"]
                        /\ cpc' = "done"
           ELSE /\ cout' = [cout EXCEPT !.entries = @ \ {id}, !.next = @ + 1]
                /\ cpc' = IF CommitsInLoop(cin.handler) THEN "commit" ELSE "loop"
    /\ UNCHANGED <<cin, CallRest>>

\* db.commit() after a deletion
RemoveCommit ==
    /\ cpc = "commit"
    /\ cout' = [cout EXCEPT !.persisted = cout.entries, !.commits = @ + 1]
    /\ cpc' = "loop"
    /\ UNCHANGED <<cin, CallRest>>

\* the loop is over: database_remove_journals commits, the others return
RemoveEnd ==
    /\ cpc = "loop" /\ cout.next > Len(cin.ids)
    /\ cout' = IF CommitsInLoop(cin.handler) THEN cout
               ELSE [cout EXCEPT !.persisted = cout.entries, !.commits = @ + 1]
    /\ cpc' = "done"
    /\ UNCHANGED <<cin, CallRest>>

RemoveNext == RemoveStart \/ RemoveDelete \/ RemoveCommit \/ RemoveEnd

SpecRemove == RemoveInit /\ [][RemoveNext]_vars

----------------------------------------------------------------------------
(* console/database.py: database history *)

\* part in text
Infix(part, text) ==
    \E i \in 1..(Len(text) - Len(part) + 1) : SubSeq(text, i, i + Len(part) - 1) = part

\* a mutation: the text of the entry is compared as it is written
HistorySelectsCaseSensitive(filter, e) == filter = <<>> \/ Infix(filter, e)

\* the entries the loop goes over: with a filter those with
\* `_filter in e.lower()`, without one all of them
HistorySelects(filter, e) == filter = <<>> \/ Infix(filter, LowerStr(e))

\* the callback of --filter: v.lower()
FilterCallback(v) == LowerStr(v)

NoHistory ==
    [handler |-> "database_history", error |-> "none", next |-> 1, history |-> {},
     persisted |-> {}, shown |-> <<>>, removed |-> 0, reported |-> <<>>]

----------------------------------------------------------------------------
(* Specification SpecHistory: database history on every history *)

\* the texts of the entries: Tom, cat
HistoryTexts == { <<"T", "o", "m">>, <<"c", "a", "t">> }

\* the values of --filter: none, TOM, a, x
HistoryFilters == { <<>>, <<"T", "O", "M">>, <<"a">>, <<"x">> }

\* the history as a set of (time, text): the times are the positions
Entries(texts) == {<<i, texts[i]>> : i \in 1..Len(texts)}

HistoryInit ==
    /\ \E texts \in SeqsUpTo(HistoryTexts, MaxRecords) :
           /\ cin \in [handler : {"database_history"}, clear : BOOLEAN,
                       filter : HistoryFilters, texts : {texts}]
           /\ cout = [NoHistory EXCEPT !.history = Entries(texts),
                                       !.persisted = Entries(texts)]
    /\ cpc = "idle"
    /\ OthersAtRest

\* the selection is set up
HistoryStart ==
    /\ cpc = "idle" /\ cin.handler = "database_history"
    /\ cpc' = "loop"
    /\ UNCHANGED <<cin, cout, CallRest>>

\* one entry of the selection: an entry the filter passes over is skipped,
\* the others are deleted with --clear and shown without
HistoryStep ==
    /\ cpc = "loop" /\ cout.next <= Len(cin.texts)
    /\ LET t == cout.next
           e == cin.texts[t]
       IN  IF ~HistorySelects(FilterCallback(cin.filter), e)
           THEN cout' = [cout EXCEPT !.next = @ + 1]
           ELSE IF cin.clear
                THEN cout' = [cout EXCEPT !.history = @ \ {<<t, e>>}, !.removed = @ + 1,
                                          !.next = @ + 1]
                ELSE cout' = [cout EXCEPT !.shown = Append(@, <<t, e>>), !.next = @ + 1]
    /\ UNCHANGED <<cin, cpc, CallRest>>

\* the iteration fails midway
HistoryFail ==
    /\ cpc = "loop" /\ cout.next <= Len(cin.texts)
    /\ cout' = [cout EXCEPT !.error = "Failure"]
    /\ cpc' = "finally"
    /\ UNCHANGED <<cin, CallRest>>

\* the loop is over
HistoryLoopEnd ==
    /\ cpc = "loop" /\ cout.next > Len(cin.texts)
    /\ cpc' = "finally"
    /\ UNCHANGED <<cin, cout, CallRest>>

\* finally: db.commit(); then, unless the loop raised, the count with --clear
HistoryFinally ==
    /\ cpc = "finally"
    /\ cout' = [cout EXCEPT !.persisted = cout.history,
                            !.reported = IF cin.clear /\ cout.error = "none"
                                         THEN <<cout.removed>> ELSE <<>>]
    /\ cpc' = "done"
    /\ UNCHANGED <<cin, CallRest>>

HistoryNext ==
    \/ HistoryStart \/ HistoryStep \/ HistoryFail \/ HistoryLoopEnd \/ HistoryFinally

SpecHistory == HistoryInit /\ [][HistoryNext]_vars

----------------------------------------------------------------------------
(* console/database.py and console.py: database copy and database merge *)

\* TableChoice.completion_items, in their order
TableChoiceItems == <<"SUBMISSIONS", "JOURNALS", "USERS">>

\* the handlers that transfer entries between two databases
ClickTransfers == {"click copy", "click merge"}
ConsoleTransfers == {"console copy", "console merge"}

\* the transfer is a merge into the opened database
IsMerge(h) == h \in {"click merge", "console merge"}

\* every cursor selected from the opened database
SelectedFromOpened(h) == "db"

\* the database the cursors are selected from: db is the opened database,
\* db2 the one named on the command line
SelectedFrom(h) == IF IsMerge(h) THEN "db2" ELSE "db"

\* the cursors of the click handlers: one per --query, or one per item of
\* TableChoice
ClickCursors(h, queries) ==
    IF queries # <<>>
    THEN [i \in 1..Len(queries) |-> [db |-> SelectedFrom(h), table |-> queries[i]]]
    ELSE [i \in 1..Len(TableChoiceItems) |->
              [db |-> SelectedFrom(h), table |-> TableChoiceItems[i]]]

\* the cursors of database_merge_copy: one for each table that has options,
\* users first
ConsoleCursors(h, queries) ==
    LET has(t) == \E i \in 1..Len(queries) : queries[i] = t
        cur(t) == IF has(t) THEN <<[db |-> SelectedFrom(h), table |-> t]>> ELSE <<>>
    IN  cur("USERS") \o cur("SUBMISSIONS") \o cur("JOURNALS")

\* db.copy(db2, *cursors) sends entries of db to db2, db.merge(db2, *cursors)
\* brings entries of db2 into db
Transfer(h, queries) ==
    [handler |-> h,
     method |-> IF IsMerge(h) THEN "merge" ELSE "copy",
     origin |-> IF IsMerge(h) THEN "db2" ELSE "db",
     dest |-> IF IsMerge(h) THEN "db" ELSE "db2",
     cursors |-> IF h \in ClickTransfers THEN ClickCursors(h, queries)
                 ELSE ConsoleCursors(h, queries)]

----------------------------------------------------------------------------
(* Specification SpecTransfer: copy and merge on every list of queries *)

\* a query is given by its table: its text does not choose the database
TransferInit ==
    /\ cin \in [handler : ClickTransfers \cup ConsoleTransfers,
                query : SeqsUpTo(Tables, MaxArgs)]
    /\ cpc = "idle" /\ cout = NoCall
    /\ OthersAtRest

TransferCall ==
    /\ cpc = "idle"
    /\ cout' = Transfer(cin.handler, cin.query)
    /\ cpc' = "done"
    /\ UNCHANGED <<cin, CallRest>>

TransferNext == TransferCall

SpecTransfer == TransferInit /\ [][TransferNext]_vars

----------------------------------------------------------------------------
(* FA_up/db_upgrade.py: the chain of database upgrades *)

\* ord() of the characters of a version
CodePoint(c) ==
    IF c = "." THEN 46 ELSE 47 + (CHOOSE i \in 1..Len(DigitChars) : DigitChars[i] = c)

\* a < b on str: the first differing character decides, a proper prefix is
\* smaller
RECURSIVE StrLess(_, _)
StrLess(a, b) ==
    IF b = <<>> THEN FALSE
    ELSE IF a = <<>> THEN TRUE
    ELSE IF a[1] # b[1] THEN CodePoint(a[1]) < CodePoint(b[1])
    ELSE StrLess(Tail(a), Tail(b))

V1_0 == <<"1", ".", "0">>
V2_0 == <<"2", ".", "0">>
V2_3 == <<"2", ".", "3">>
V2_6 == <<"2", ".", "6">>
V2_7 == <<"2", ".", "7">>

current_version == V2_6

\* the tables db_upgrade_main looks for
UpgradeTables == {"SUBMISSIONS", "USERS", "INFOS"}

\* the if / elif chain of one turn of the loop: the step to run, "exit" for
\* sys.exit(1), "none" when db_upgrade stays False
SelectUpgrade(version) ==
    CASE StrLess(version, V2_0) -> "db_upgrade_v1v2"
      [] ~StrLess(version, V2_0) /\ StrLess(version, V2_3) -> "db_upgrade_v2v2_3"
      [] ~StrLess(version, V2_3) /\ StrLess(version, V2_6) -> "db_upgrade_v2_3v2_6"
      [] ~StrLess(version, V2_6) /\ StrLess(version, V2_7) -> "db_upgrade_v2_6v2_7"
      [] ~StrLess(version, V2_7) /\ StrLess(current_version, version) -> "exit"
      [] OTHER -> "none"

\* the version an upgrade step leaves in INFOS
StepTarget(step) ==
    CASE step = "db_upgrade_v1v2" -> V2_0
      [] step = "db_upgrade_v2v2_3" -> V2_3
      [] step = "db_upgrade_v2_3v2_6" -> V2_6
      [] step = "db_upgrade_v2_6v2_7" -> V2_7

\* infos['VERSION'], '1.0' when INFOS has no VERSION
InfosVersion(stored) == IF stored.set THEN stored.value ELSE V1_0

----------------------------------------------------------------------------
(* Specification SpecUpgrade: db_upgrade_main on every database *)

\* the versions found in INFOS: those of the chain, 2.1, 2.5, 2.10 and 3.0
StoredVersions ==
    { V1_0, V2_0, V2_3, V2_6, V2_7, <<"2", ".", "1">>, <<"2", ".", "5">>,
      <<"2", ".", "1", "0">>, <<"3", ".", "0">> }

NoVersion == [set |-> FALSE, value |-> <<>>]

UpgradeInit ==
    /\ cin \in [handler : {"db_upgrade_main"}, tables : SUBSET UpgradeTables,
                stored : {NoVersion} \cup [set : {TRUE}, value : StoredVersions]]
    /\ cpc = "idle" /\ cout = NoCall
    /\ OthersAtRest

\* the function is entered: nothing is applied yet
UpgradeStart ==
    /\ cpc = "idle" /\ cin.handler = "db_upgrade_main"
    /\ cout' = [handler |-> "db_upgrade_main", stored |-> cin.stored, applied |-> <<>>,
                status |-> 0]
    /\ cpc' = "loop"
    /\ UNCHANGED <<cin, CallRest>>

\* one of SUBMISSIONS, USERS, INFOS is missing: return
UpgradeReturn ==
    /\ cpc = "loop" /\ cin.tables # UpgradeTables
    /\ cpc' = "returned"
    /\ UNCHANGED <<cin, cout, CallRest>>

\* a step is selected and run
UpgradeApply ==
    /\ cpc = "loop" /\ cin.tables = UpgradeTables
    /\ LET step == SelectUpgrade(InfosVersion(cout.stored))
       IN  /\ step \notin {"exit", "none"}
           /\ cout' = [cout EXCEPT !.stored = [set |-> TRUE, value |-> StepTarget(step)],
                                   !.applied = Append(@, step)]
    /\ UNCHANGED <<cin, cpc, CallRest>>

\* no step is run: sys.exit(1) after 'Program is not up to date' when the
\* version is above current_version, break otherwise
UpgradeLeave ==
    /\ cpc = "loop" /\ cin.tables = UpgradeTables
    /\ LET step == SelectUpgrade(InfosVersion(cout.stored))
       IN  /\ step \in {"exit", "none"}
           /\ cout' = [cout EXCEPT !.status = IF step = "exit" THEN 1 ELSE 0]
           /\ cpc' = IF step = "exit" THEN "exited" ELSE "done"
    /\ UNCHANGED <<cin, CallRest>>

UpgradeNext ==
    \/ UpgradeStart \/ UpgradeReturn \/ UpgradeApply \/ UpgradeLeave

SpecUpgrade == UpgradeInit /\ [][UpgradeNext]_vars

----------------------------------------------------------------------------
(* Claims about the renderers *)

ClickRenderers == TableRenderers \cup StreamRenderers

\* the renderer has returned
RenderReturned == rpc = "done" /\ rin.renderer \in ClickRenderers

\* everything written so far, as one text
RECURSIVE Written(_)
Written(writes) ==
    IF writes = <<>> THEN <<>> ELSE Head(writes) \o Written(Tail(writes))

ArrayOfRecords ==
    <<"[">>
    \o Join([i \in 1..Len(rin.records) |-> Dumps(rin.columns, rin.records[i])],
            <<",">>)
    \o <<"]">>

C14_OneRecordAtATime == Len(held) <= 1

\* a field as C16 states it: the elements of a list or a set joined by single
\* spaces, the string form of a scalar
SpaceJoined(value) ==
    CASE value.kind \in {"list", "set"} -> Join(value.items, <<" ">>)
      [] value.kind = "int" -> IntToStr(value.n)
      [] OTHER -> value.s

StatedDelimiter == IF rin.renderer = "csv" THEN "," ELSE "\t"

\* C16: for n records the csv / tsv renderer writes one header row of the
\* column names and then n data rows in cursor order, lists and sets joined
\* by single spaces and scalars in their string form, with "," for csv and a
\* tab for tsv
C16_HeaderThenOneRowPerRecord ==
    (rpc = "done" /\ rin.renderer \in {"csv", "tsv"}) =>
        /\ Len(out) = 1 + Len(rin.records)
        /\ out[1] = CsvRow(rin.columns, StatedDelimiter)
        /\ \A i \in 1..Len(rin.records) :
               out[i + 1] = CsvRow([j \in 1..Len(rin.records[i]) |->
                                       SpaceJoined(rin.records[i][j])],
                                   StatedDelimiter)
        /\ total = Len(rin.records)

\* a tsv export of two records, the first with a list of two elements
C16_Witness ==
    /\ rpc = "done" /\ rin.renderer = "tsv"
    /\ rin.records = <<RecordList, RecordComma>>
    /\ Len(out) = 3

\* the whole output of the table, csv and tsv renderers, write by write: the
\* header (for a table the header line and the rule under it), then the rows
WholeOutput ==
    CASE rin.renderer = "table_colour" ->
             <<ColourHeaderLine(rin.layout, rin.columns),
               ColourRuleLine(rin.layout, rin.columns)>>
             \o [i \in 1..Len(rin.records) |->
                    ColourRow(rin.layout, rin.columns, rin.records[i])]
      [] rin.renderer = "table_plain" ->
             <<PlainHeaderLine(rin.layout, rin.columns),
               PlainRuleLine(rin.layout, rin.columns)>>
             \o [i \in 1..Len(rin.records) |->
                    PlainRow(rin.layout, rin.columns, rin.records[i])]
      [] OTHER ->
             <<CsvRow(rin.columns, StatedDelimiter)>>
             \o [i \in 1..Len(rin.records) |->
                    CsvRow([j \in 1..Len(rin.records[i]) |->
                               SpaceJoined(rin.records[i][j])], StatedDelimiter)]

CompleteLine(line) == line # <<>> /\ line[Len(line)] = "\n"

\* the write that closes the array of print_json
ClosingWritten == \E i \in 1..Len(out) : out[i] = <<"]">>

\* C15: interrupted between two writes, the output of the csv, tsv and table
\* renderers is the header followed by whole rows, a prefix of the whole
\* output; print_json writes the closing "]" only once the cursor is
\* exhausted and the last record is written, so an interrupted array is not
\* terminated
C15_InterruptedOutputIsPrefix ==
    /\ (rpc = "interrupted" /\ rin.renderer \in TableRenderers \cup {"csv", "tsv"}) =>
           /\ Len(out) \in 1..Len(WholeOutput)
           /\ out = SubSeq(WholeOutput, 1, Len(out))
           /\ \A i \in 1..Len(out) : CompleteLine(out[i])
    /\ rin.renderer = "json" =>
           /\ ClosingWritten <=> rpc = "done"
           /\ ClosingWritten => pulled = Len(rin.records) /\ held = <<>>
           /\ rpc = "interrupted" => out[1] = <<"[">> /\ ~ClosingWritten

\* a plain table of two records interrupted after the first row
C15_Witness ==
    /\ rpc = "interrupted" /\ rin.renderer = "table_plain"
    /\ Len(rin.records) = 2 /\ Len(out) = 3 /\ pulled = 1

----------------------------------------------------------------------------
(* Claims about the widths of a search *)

\* the names the --column values of a search give, widths left aside
NamesGiven(col) ==
    [i \in 1..Len(column_callback(col).list) |-> column_callback(col).list[i].name]

\* the two searches are well formed and differ only in their width hints and
\* in --ignore-width
DifferOnlyInWidths ==
    /\ column_callback(column).error = "none"
    /\ column_callback(pair.column).error = "none"
    /\ NamesGiven(column) = NamesGiven(pair.column)

BothSearched == shown.a # NoOutput /\ shown.b # NoOutput

\* C13: two searches that differ only in the width hints of their columns and
\* in --ignore-width select the same columns, and their csv, tsv and json
\* outputs are the same
C13_WidthsReachOnlyTheTable ==
    (BothSearched /\ DifferOnlyInWidths) =>
        /\ shown.a.columns = shown.b.columns
        /\ pair.output \in {"csv", "tsv", "json"} =>
               /\ shown.a.error = shown.b.error
               /\ shown.a.writes = shown.b.writes

\* title,5 ID,10 against title,2 ID with --ignore-width, as csv: the same
\* three rows
C13_Witness ==
    /\ BothSearched /\ DifferOnlyInWidths /\ pair.output = "csv"
    /\ column = <<<<"t", "i", "t", "l", "e", ",", "5">>, <<"I", "D", ",", "1", "0">>>>
    /\ pair.column = <<<<"t", "i", "t", "l", "e", ",", "2">>, <<"I", "D">>>>
    /\ ~pair.ignore_width /\ pair.ignore_width2
    /\ shown.a.error = "none" /\ Len(shown.a.writes) = 3
    /\ shown.a.writes = shown.b.writes

----------------------------------------------------------------------------
(* Claims about database add *)

\* FILE holds an object that gives every column of the table / lacks one
GivenColumns == {LowerStr(k) : k \in addIn.data.keys}

AddComplete ==
    /\ addIn.data.kind = "object"
    /\ \A c \in ColumnSet(addIn.table) : LowerStr(c) \in GivenColumns

AddLacksColumn ==
    /\ addIn.data.kind = "object"
    /\ \E c \in ColumnSet(addIn.table) : LowerStr(c) \notin GivenColumns

\* the handler got past database() and has ended
AddEnded == addPc = "done" /\ addIn.versionOK

AddStored == <<addIn.data.id, "new">> \in store[addIn.table]

\* C17 as stated: without --replace a file lacking a column is rejected, with
\* --replace it is accepted
C17_ReplaceLiftsMissingColumns ==
    (AddEnded /\ AddLacksColumn) =>
        IF addIn.replace THEN addResult = "ok" /\ AddStored
        ELSE addResult # "ok" /\ store = InitialStore

\* C17 amended: a file lacking a column of the table is rejected and the
\* tables stay as they were whether or not --replace is set; what --replace
\* lifts is the rejection of a key that already exists (users, journals)
C17_MissingColumnsAlwaysRejected ==
    /\ (AddEnded /\ AddLacksColumn) =>
           addResult \in MissingFieldsErrors /\ store = InitialStore
    /\ (AddEnded /\ AddComplete /\ addIn.table # "SUBMISSIONS" /\ addIn.data.id = "k1") =>
           IF addIn.replace THEN addResult = "ok" /\ AddStored
           ELSE addResult = "BadParameter:exists" /\ store = InitialStore

\* --replace was set and the file lacked the last column: rejected
C17_Witness ==
    /\ AddEnded /\ addIn.replace /\ addIn.table = "JOURNALS"
    /\ LowerStr(ColID) \in addIn.data.keys /\ LowerStr(ColDATE) \notin addIn.data.keys
    /\ addIn.data.kind = "object"
    /\ addResult \in MissingFieldsErrors /\ store = InitialStore

\* C18: complete data under an existing key and without --replace ends with
\* the duplicate-entry error and the three tables unchanged; complete data
\* under a new key is stored, in each of the three tables
C18_DuplicateRejectedNewStored ==
    (AddEnded /\ AddComplete) =>
        /\ (addIn.data.id = "k1" /\ ~addIn.replace) =>
               addResult = "BadParameter:exists" /\ store = InitialStore
        /\ addIn.data.id = "k2" => addResult = "ok" /\ AddStored

----------------------------------------------------------------------------
(* Claims about the query compilation *)

\* the policy a column is compared under when a term names it
OwnPolicy(c) == IF c \in ExactColumns THEN "exact" ELSE "substring"

AnyTerm == compiled.called /\ query.field \in {<<>>, FieldAny}

\* C19 as stated: a term under the any field is compiled as one comparison
\* per column of the table, each under the column's own policy
C19_AnyIsOrOverColumns ==
    AnyTerm =>
        /\ Len(compiled.elems) = Len(TableColumns(query.table))
        /\ \A i \in 1..Len(compiled.elems) :
               /\ compiled.elems[i].expr = TableColumns(query.table)[i]
               /\ compiled.elems[i].policy = OwnPolicy(TableColumns(query.table)[i])

\* C19 amended: search() compiles a term that is unscoped or scoped to any
\* under the field any, which it lists among the substring fields and
\* aliases to the concatenation of all columns of the table, in the table's
\* order: one substring comparison, in which no column has a policy of its own
C19_AnyIsSubstringOverConcatenation ==
    AnyTerm =>
        /\ compiled.field = FieldAny
        /\ FieldAny \in compiled.likes
        /\ FieldAny \in DOMAIN compiled.aliases
        /\ compiled.aliases[FieldAny] =
               <<"(">> \o Join(TableColumns(query.table), <<"|", "|">>) \o <<")">>
        /\ Len(compiled.elems) = 1
        /\ compiled.elems[1] = [expr |-> compiled.aliases[FieldAny], policy |-> "substring"]

\* an unscoped term on the submissions was compiled against (ID||AUTHOR||TITLE||DATE)
C19_Witness ==
    /\ compiled.called /\ query.field = <<>> /\ query.table = "SUBMISSIONS"
    /\ compiled.elems[1].expr = <<"(", "I", "D", "|", "|", "A", "U", "T", "H", "O", "R", "|", "|", "T", "I", "T", "L", "E", "|", "|", "D", "A", "T", "E", ")">>
    /\ compiled.values = <<<<"%", "t", "o", "m", "%">>>>

\* C20: whenever the compiler is called, ID, AUTHOR and USERNAME are not among
\* the substring fields and every other column of the table is, whatever the
\* field and the pattern of the query
C20_PolicyByFieldIdentity ==
    compiled.called =>
        \A c \in ColumnSet(query.table) :
            (LowerStr(c) \in compiled.likes) <=> (c \notin ExactColumns)

\* a term scoped to author was compiled as an exact comparison, one scoped to
\* title would be a substring one
C20_Witness ==
    /\ compiled.called /\ query.table = "JOURNALS" /\ query.field = FieldAuthor
    /\ compiled.elems[1].policy = "exact"
    /\ compiled.values = <<query.pattern>>
    /\ LowerStr(ColTITLE) \in compiled.likes

\* the number of placeholders in a text
RECURSIVE Placeholders(_)
Placeholders(text) ==
    IF text = <<>> THEN 0
    ELSE (IF Head(text) = "?" THEN 1 ELSE 0) + Placeholders(Tail(text))

\* the text holds part as a run of consecutive characters
Holds(text, part) ==
    \E i \in 1..(Len(text) - Len(part) + 1) : SubSeq(text, i, i + Len(part) - 1) = part

Searched == compiled # NoCompiled

\* C21 as stated: with or without --sql the predicate has as many
\* placeholders as there are bound values, and the pattern the user gave is
\* not in its text
C21_PlaceholdersMatchEverySearch ==
    Searched =>
        /\ Placeholders(PredicateText(compiled)) = Len(compiled.values)
        /\ ~Holds(PredicateText(compiled), query.pattern)

\* C21 amended: without --sql the predicate has as many placeholders as there
\* are bound values and the pattern is among the values, not in the text;
\* with --sql the predicate is the text the user gave, as typed, and no value
\* is bound
C21_PlaceholdersMatchCompiledSearch ==
    Searched =>
        IF query.sql
        THEN PredicateText(compiled) = query.pattern /\ compiled.values = <<>>
        ELSE /\ Placeholders(PredicateText(compiled)) = Len(compiled.values)
             /\ ~Holds(PredicateText(compiled), query.pattern)
             /\ \E i \in 1..Len(compiled.values) : Holds(compiled.values[i], query.pattern)

\* a pattern with a question mark, searched without --sql: one placeholder,
\* one value, and the question mark of the pattern is in the value
C21_Witness ==
    /\ Searched /\ ~query.sql /\ query.pattern = <<"i", "d", "=", "?">>
    /\ Placeholders(PredicateText(compiled)) = 1
    /\ compiled.values = <<<<"%", "i", "d", "=", "?", "%">>>>

----------------------------------------------------------------------------
(* Claims about download update *)

\* the positional arguments of the call
UpdatePositional == parse_args(cin.args).args

\* the update was called, limited to nothing
Unrestricted == cout.called /\ cout.users = <<>> /\ cout.folders = <<>>

\* C23: a users list (alone, with folders or with @) limits the update to
\* those users, a folders list limits it to those folders, and the update is
\* unrestricted only for no positional arguments and for @ @
C23_UpdateLimitedToArguments ==
    (cpc = "done" /\ cout.called) =>
        /\ Unrestricted <=> UpdatePositional \in {<<>>, <<At, At>>}
        /\ (Len(UpdatePositional) \in {1, 2} /\ UpdatePositional[1] # At) =>
               cout.users = SplitAll(UpdatePositional[1], ",")
        /\ (Len(UpdatePositional) = 2 /\ UpdatePositional[2] # At) =>
               cout.folders = SplitAll(UpdatePositional[2], ",")

----------------------------------------------------------------------------
(* Claims about database edit *)

\* the edit of an existing submission has ended
EditEnded ==
    /\ cin.handler = "database_edit" /\ cpc = "done"
    /\ cin.table = "SUBMISSIONS" /\ cin.exists

\* C24: without FILE and with --submission-file and / or
\* --submission-thumbnail the edit goes through: the file is saved as the
\* submission file, the thumbnail's content as the thumbnail, and the entry
\* is updated
C24_EditWithoutFile ==
    (EditEnded /\ cin.file = "omitted"
        /\ (cin.submission_file \/ cin.submission_thumbnail)) =>
        /\ cout.error = "none"
        /\ cin.submission_file =>
               \E i \in 1..Len(cout.saves) :
                   cout.saves[i] = [name |-> "submission", bytes |-> "file bytes"]
        /\ cin.submission_thumbnail =>
               \E i \in 1..Len(cout.saves) :
                   cout.saves[i] = [name |-> "thumbnail", bytes |-> "thumbnail bytes"]
        /\ cout.updated

\* FILESAVED of the entry once the edit has ended without an error
FileSavedAfter == IF cout.filesaved.set THEN cout.filesaved.value ELSE cin.filesaved

\* C30: after an edit of a submission FILESAVED has bit 0b10 set when
\* --submission-file was given and bit 0b01 set when --submission-thumbnail
\* was given, and a bit whose option was not given keeps its value; with both
\* options the value is 0b11 whatever it was
C30_FileSavedBits ==
    (EditEnded /\ cout.error = "none") =>
        /\ cin.submission_file => Bit10(FileSavedAfter) = 2
        /\ cin.submission_thumbnail => Bit01(FileSavedAfter) = 1
        /\ ~cin.submission_file => Bit10(FileSavedAfter) = Bit10(cin.filesaved)
        /\ ~cin.submission_thumbnail => Bit01(FileSavedAfter) = Bit01(cin.filesaved)
        /\ (cin.submission_file /\ cin.submission_thumbnail) => FileSavedAfter = 3

----------------------------------------------------------------------------
(* Claims about the files of database add *)

\* FILE gives every column, and the entry is new or --replace is set
AddFilesAccepted ==
    /\ cin.handler = "database_add" /\ cpc = "done"
    /\ \A c \in ColumnSet("SUBMISSIONS") : \E k \in cin.keys : LowerStr(k) = LowerStr(c)
    /\ cin.replace \/ ~cin.exists

\* C25: save_submission receives as file bytes the content of
\* --submission-file, or the existing file without the option, and as
\* thumbnail bytes the content of --submission-thumbnail, or the existing
\* thumbnail without the option
C25_EachFileInItsSlot ==
    AddFilesAccepted =>
        /\ cout.saved
        /\ cout.sub_file = (IF cin.submission_file THEN "content of --submission-file"
                            ELSE IF cin.file_orig THEN "existing file" ELSE "None")
        /\ cout.sub_thumb = (IF cin.submission_thumbnail
                             THEN "content of --submission-thumbnail"
                             ELSE IF cin.thumb_orig THEN "existing thumbnail" ELSE "None")

----------------------------------------------------------------------------
(* Claims about database remove *)

Listed == {cin.ids[i] : i \in 1..Len(cin.ids)}

\* the listed ids that were not in the table when their turn came, in order
RECURSIVE AbsentInTurn(_, _)
AbsentInTurn(ids, entries) ==
    IF ids = <<>> THEN <<>>
    ELSE (IF Head(ids) \in entries THEN <<>> ELSE <<Head(ids)>>)
         \o AbsentInTurn(Tail(ids), entries \ {Head(ids)})

Removing == cin.handler \in {ClickRemove} \cup ConsoleRemovers

\* C26: every listed id that was present is deleted and committed, one by
\* one; a listed id that was not present is reported and skipped, and the
\* remaining deletions go on; the entries not listed stay
C26_RemoveListedOnly ==
    Removing =>
        /\ Cardinality(cout.persisted \ cout.entries) <= 1
        /\ cpc = "done" =>
               /\ cout.error = "none"
               /\ cout.entries = RemoveEntries \ Listed
               /\ cout.persisted = RemoveEntries \ Listed
               /\ cout.reported = AbsentInTurn(cin.ids, RemoveEntries)

----------------------------------------------------------------------------
(* Claims about database history *)

\* the entries whose text holds the filter, letter case aside
HoldingFilter ==
    {<<i, cin.texts[i]>> : i \in {j \in 1..Len(cin.texts) :
                                      Holds(LowerStr(cin.texts[j]), LowerStr(cin.filter))}}

HistoryBefore == {<<i, cin.texts[i]>> : i \in 1..Len(cin.texts)}

\* C27: entries are deleted only with --clear; with --clear and --filter
\* exactly the entries holding the filter, letter case aside, are removed,
\* with --clear alone all of them; the count reported is the number of
\* entries deleted; the change is committed even when the iteration fails
\* midway
C27_ClearRemovesTheSelection ==
    cin.handler = "database_history" =>
        /\ ~cin.clear => cout.history = HistoryBefore
        /\ HistoryBefore \ cout.history \subseteq HoldingFilter
        /\ cout.removed = Cardinality(HistoryBefore \ cout.history)
        /\ cpc = "done" =>
               /\ cout.persisted = cout.history
               /\ (cin.clear /\ cout.error = "none") =>
                      /\ cout.history = HistoryBefore \ HoldingFilter
                      /\ cin.filter = <<>> => cout.history = {}
                      /\ cout.reported = <<Cardinality(HistoryBefore \ cout.history)>>

\* Tom and cat with --clear --filter TOM: Tom was removed, cat stays, the
\* count is 1
C27_Witness ==
    /\ cin.handler = "database_history" /\ cpc = "done" /\ cin.clear
    /\ cin.filter = <<"T", "O", "M">>
    /\ cin.texts = <<<<"T", "o", "m">>, <<"c", "a", "t">>>>
    /\ cout.persisted = {<<2, <<"c", "a", "t">>>>}
    /\ cout.reported = <<1>>

----------------------------------------------------------------------------
(* Claims about copy and merge *)

\* the transfer was called
Transferred == cpc = "done" /\ cout.handler \in ClickTransfers \cup ConsoleTransfers

\* every cursor handed to the transfer is selected from its origin
CursorsFromOrigin ==
    \A i \in 1..Len(cout.cursors) :
        cout.cursors[i].db = cout.origin /\ cout.cursors[i].db # cout.dest

\* one cursor for each of users, submissions and journals
OnePerMajorTable ==
    /\ Len(cout.cursors) = Cardinality(Tables)
    /\ \A t \in Tables : \E i \in 1..Len(cout.cursors) : cout.cursors[i].table = t

\* C28: in copy and merge every cursor passed to the transfer is selected
\* from the origin of the transfer (the opened database for copy, the second
\* database for merge), and without a query one cursor per major table of
\* the origin is passed
C28_CursorsOfTheOrigin ==
    Transferred =>
        /\ cout.origin = (IF cout.method = "copy" THEN "db" ELSE "db2")
        /\ CursorsFromOrigin
        /\ cin.query = <<>> => OnePerMajorTable

----------------------------------------------------------------------------
(* Claims about the database upgrade *)

\* the steps of the chain, in their order
UpgradeChain ==
    <<"db_upgrade_v1v2", "db_upgrade_v2v2_3", "db_upgrade_v2_3v2_6", "db_upgrade_v2_6v2_7">>

\* the steps due to a database at a version of the chain
ChainFrom(stored) ==
    LET first == CASE ~stored.set \/ stored.value = V1_0 -> 1
                   [] stored.value = V2_0 -> 2
                   [] stored.value = V2_3 -> 3
                   [] stored.value = V2_6 -> 4
    IN  SubSeq(UpgradeChain, first, Len(UpgradeChain))

\* db_upgrade_main runs on a database that has its tables and is at a
\* version of the chain
OnTheChain ==
    /\ cin.handler = "db_upgrade_main" /\ cpc # "idle"
    /\ cin.tables = UpgradeTables
    /\ ~cin.stored.set \/ cin.stored.value \in {V1_0, V2_0, V2_3, V2_6}

\* the steps applied so far are the first of those due
AppliedInOrder ==
    /\ Len(cout.applied) <= Len(ChainFrom(cin.stored))
    /\ cout.applied = SubSeq(ChainFrom(cin.stored), 1, Len(cout.applied))

\* C29: started at a version of the chain (missing or 1.0, 2.0, 2.3, 2.6),
\* db_upgrade_main applies v1v2, v2v2_3, v2_3v2_6, v2_6v2_7 in that order,
\* each at most once, and ends by leaving the loop, not by exiting with
\* 'Program is not up to date'
C29_UpgradeChainEndsNormally ==
    OnTheChain =>
        /\ AppliedInOrder
        /\ cpc # "exited"
        /\ cpc = "done" => cout.applied = ChainFrom(cin.stored)

----------------------------------------------------------------------------
(* Claims about the width of the table *)

\* the characters a line occupies on the terminal: the escape sequences of
\* style and the line break take no place
Occupies(line) ==
    Cardinality({i \in 1..Len(line) : line[i] \notin {"yellow", "bright_black", "reset", "\n"}})

\* the place of the separators between n cells
SeparatorsWidth(n) == IF n > 1 THEN 3 * (n - 1) ELSE 0

\* the width of a column that is cut to its hint and padded to it
CellWidth(text, w) == IF w = 0 THEN Len(text) ELSE w

\* the width of the k-th line of the table when nothing is cut from it: the
\* header, the rule, and the lines of the records
UncutWidth(k) ==
    LET w == Widths(rin.layout, rin.columns)
        n == Len(rin.columns)
        header == SumLen([i \in 1..n |-> Repeat("h", CellWidth(rin.columns[i], w[i]))])
        record == rin.records[k - 2]
        m == IF Len(record) < n THEN Len(record) ELSE n
    IN  CASE k = 1 -> header + SeparatorsWidth(n)
          [] k = 2 -> header + SeparatorsWidth(n) + 1
          [] OTHER -> SumLen([i \in 1..m |->
                                 Repeat("v", CellWidth(format_value(record[i]), w[i]))])
                      + SeparatorsWidth(m)

\* C22: with a known terminal width W and without --ignore-width every
\* header, rule and record line of the table occupies at most W characters,
\* for every number of columns and every W >= 1; with the width unknown or
\* ignored no line is cut
C22_TableLinesFitTheTerminal ==
    rin.renderer \in TableRenderers =>
        \A k \in 1..Len(out) :
            IF TerminalWidth(rin.layout) # 0
            THEN Occupies(out[k]) <= TerminalWidth(rin.layout)
            ELSE Occupies(out[k]) = UncutWidth(k)

----------------------------------------------------------------------------
(* Claims about the option parsers *)

\* the name and the value a token carries: the text before its first "=",
\* without surrounding white space, and the text after it
TokenName(tok) == Strip(SubSeq(tok, 1, IndexOf(tok, "=") - 1))
TokenValue(tok) == SubSeq(tok, IndexOf(tok, "=") + 1, Len(tok))

\* the values of the tokens of toks that carry name n, in input order
RECURSIVE ValuesCarrying(_, _)
ValuesCarrying(toks, n) ==
    IF toks = <<>> THEN <<>>
    ELSE IF TokenName(Head(toks)) = n
         THEN <<TokenValue(Head(toks))>> \o ValuesCarrying(Tail(toks), n)
         ELSE ValuesCarrying(Tail(toks), n)

NamesOf(toks) == {TokenName(toks[i]) : i \in 1..Len(toks)}

AllKeyValue(toks) == \A i \in 1..Len(toks) : OptionPattern(toks[i])

\* parameters_multi keeps, for every name, the values of the tokens carrying
\* it, in input order and with duplicates
MultiAccumulates ==
    (ret.fn = "parameters_multi" /\ ret.error = "none") =>
        /\ DOMAIN ret.params = NamesOf(argv)
        /\ \A n \in NamesOf(argv) : ret.params[n] = ValuesCarrying(argv, n)

\* C8 as stated: parameters_multi and the mapping of parse_args both keep
\* every value of a repeated name, in input order; a mapping to one value keeps
\* exactly that value
C8_AppendNeverOverwrite ==
    /\ MultiAccumulates
    /\ (ret.fn = "parse_args" /\ AllKeyValue(argv)) =>
           \A n \in NamesOf(argv) :
               n \in DOMAIN ret.opts /\ <<ret.opts[n]>> = ValuesCarrying(argv, n)

\* C8 amended: parameters_multi keeps every value of a repeated name in input
\* order with duplicates; the mapping of parse_args keeps for each name only
\* the value of the last token carrying it
C8_MultiAppendsParseArgsKeepsLast ==
    /\ MultiAccumulates
    /\ (ret.fn = "parse_args" /\ AllKeyValue(argv)) =>
           /\ DOMAIN ret.opts = NamesOf(argv)
           /\ \A n \in NamesOf(argv) :
                  LET vs == ValuesCarrying(argv, n) IN ret.opts[n] = vs[Len(vs)]

\* a name given three times, twice with the same value, was accumulated
C8_Witness ==
    /\ ret.fn = "parameters_multi" /\ ret.error = "none"
    /\ \E n \in DOMAIN ret.params :
           /\ Len(ret.params[n]) = 3
           /\ ret.params[n][1] = ret.params[n][3]
           /\ ret.params[n][1] # ret.params[n][2]

\* the length of the maximal leading run of tokens matching the pattern
LeadingRun(toks) ==
    CHOOSE k \in 0..Len(toks) :
        /\ \A i \in 1..k : OptionPattern(toks[i])
        /\ k < Len(toks) => ~OptionPattern(toks[k + 1])

\* C9: the options of parse_args are exactly the maximal leading run of
\* tokens matching the pattern; the first other token and everything after
\* it, in order, are the positional arguments, a stopping "--" being dropped
C9_LeadingRunThenPositional ==
    ret.fn = "parse_args" =>
        LET k == LeadingRun(argv)
        IN  /\ DOMAIN ret.opts = NamesOf(SubSeq(argv, 1, k))
            /\ ret.args = IF k = Len(argv) THEN <<>>
                          ELSE IF argv[k + 1] = DashDash
                               THEN SubSeq(argv, k + 2, Len(argv))
                               ELSE SubSeq(argv, k + 1, Len(argv))

\* an option, then a plain token that stops the scan, then a token of
\* key=value shape that stays positional
C9_Witness ==
    /\ ret.fn = "parse_args"
    /\ Len(argv) = 3
    /\ OptionPattern(argv[1]) /\ ~OptionPattern(argv[2]) /\ argv[2] # DashDash
    /\ OptionPattern(argv[3])
    /\ ret.args = SubSeq(argv, 2, 3)
    /\ Cardinality(DOMAIN ret.opts) = 1

----------------------------------------------------------------------------
(* Claims about one invocation *)

Count(seq, x) == Cardinality({i \in DOMAIN seq : seq[i] = x})

\* the checks between the history write and the match of a sub-dispatcher
\* let the invocation through
ChecksPass ==
    /\ env.versionOK /\ ~env.otherConn
    /\ comm = "download" => env.nprocs <= 1

UnknownToken ==
    \/ comm \notin Informational \cup DbCommands \cup {"help", "update"}
    \/ comm = "config" /\ op \notin ConfigOps \cup {""} /\ ChecksPass
    \/ comm = "download" /\ op \notin DOMAIN DownloadHandlers /\ ChecksPass
    \/ comm = "database" /\ op \notin DOMAIN DatabaseHandlers /\ ChecksPass

\* C1: at every dispatch level of console.py a token that is in no routing
\* table ends the invocation with UnknownCommand and no handler body has run
C1_UnknownTokenRaises ==
    (front = "console" /\ pc = "done" /\ UnknownToken) =>
        result = "UnknownCommand" /\ handler = "none"

\* archive a holds the entry of this invocation, committed
HistoryRecorded(a) == a.history = Append(InitialArchive.history, Entry)

\* the archive whose history the invocation writes to
HistoryArchive == IF front = "click" /\ op = "copy" THEN other ELSE persisted

MutatingHandlers ==
    {"config_cookies", "config_files_folder", "download_users", "download_update",
     "download_submissions", "download_journals", "database_add_user",
     "database_add_submission", "database_add_journal", "database_remove_users",
     "database_remove_submissions", "database_remove_journals", "database_merge",
     "database_copy", "database_clean", "database_upgrade"}

\* the handlers that write a history entry at all: those console() dispatches
\* to and the click handlers copy, merge and edit
HistoryWriters ==
    {"init", "config_list"} \cup {DatabaseHandlers[o] : o \in DOMAIN DatabaseHandlers}
    \cup MutatingHandlers
    \cup {"click_database_copy", "click_database_merge", "click_database_edit"}

\* C2 as stated: once a handler has started, the entry of the command line is
\* in the committed history, and stays there when the handler fails
C2_HistoryBeforeEveryHandler ==
    handler \in HistoryWriters => HistoryRecorded(HistoryArchive)

\* C2 amended: for the handlers console() dispatches to, the entry is
\* committed before the body starts and stays when it fails; the click
\* handlers copy and merge record it only after the transfer was completed
\* and committed, edit only after FILE was loaded and accepted, info never
C2_HistoryBeforeConsoleHandlers ==
    /\ (front = "console" /\ handler # "none") => HistoryRecorded(persisted)
    /\ (front = "click" /\ op \in {"copy", "merge"} /\ HistoryRecorded(HistoryArchive)) =>
           transferred /\ pc = "done"
    /\ (front = "click" /\ op = "edit" /\ HistoryRecorded(persisted)) =>
           EditAccepts(opt) /\ pc = "done"
    /\ (front = "click" /\ op = "info") => ~HistoryRecorded(persisted)

\* a handler dispatched by console() failed after deleting entries, and the
\* entry of its command line is in the committed history
C2_Witness ==
    /\ front = "console" /\ pc = "done" /\ result = "Failure"
    /\ handler = "database_remove_users" /\ "entries" \in persisted.tables
    /\ HistoryRecorded(persisted)

\* C3: once console() has opened the connection it ends closed on every exit
\* path, closed exactly once, with a commit as the call before the close and
\* nothing uncommitted left behind
C3_CommitThenCloseOnce ==
    /\ Count(connLog, "close") <= 1
    /\ (front = "console" /\ pc = "done" /\ connLog # <<>>) =>
           /\ ~db.open
           /\ Count(connLog, "close") = 1
           /\ connLog[Len(connLog)] = "close"
           /\ connLog[Len(connLog) - 1] = "commit"
           /\ persisted = Commit(db)

\* the server operation closed the connection itself and then failed
C3_Witness ==
    /\ front = "console" /\ pc = "done" /\ handler = "database_server"
    /\ result = "Failure" /\ ~db.open /\ Count(connLog, "close") = 1

DownloadBodies == {DownloadHandlers[o] : o \in DOMAIN DownloadHandlers}

\* C4 as stated: no mutating handler body starts without check_process having
\* passed
C4_ScanBeforeEveryMutatingHandler ==
    (front = "console" /\ handler \in MutatingHandlers) => scanned

\* C4 amended: only the download handlers are preceded by check_process, which
\* raises MultipleInstances when more than one process matches; the config and
\* database handlers start without it, and every handler of console() is
\* preceded by check_connection on the archive path
C4_ScanBeforeDownloadHandlersOnly ==
    front = "console" =>
        /\ handler \in DownloadBodies => scanned /\ env.nprocs <= 1
        /\ (handler # "none" /\ handler \notin DownloadBodies) => ~scanned
        /\ handler # "none" => ~env.otherConn
        /\ (comm = "download" /\ pc \in {"finally", "done"} /\ env.versionOK
            /\ ~env.otherConn /\ env.nprocs > 1) => result = "MultipleInstances"

\* a download handler is about to run after the scan found one process
C4_Witness ==
    /\ front = "console" /\ pc = "body" /\ handler = "download_update"
    /\ scanned /\ env.nprocs = 1

MutatingCommand ==
    \/ comm = "download"
    \/ comm = "config" /\ op \in {"cookies", "files-folder"} /\ rest # <<>>
    \/ comm = "database" /\ op \in DOMAIN DatabaseHandlers
       /\ DatabaseHandlers[op] \in MutatingHandlers

\* C5 as stated: a mutating command invoked while another process is alive
\* raises MultipleInstances and leaves the persisted archive as it was
C5_OtherProcessNoMutation ==
    (front = "console" /\ pc = "done" /\ MutatingCommand
     /\ env.versionOK /\ ~env.otherConn /\ env.nprocs > 1) =>
        /\ result = "MultipleInstances"
        /\ persisted = InitialArchive /\ other = InitialArchive

\* C5 amended: a download command invoked while check_process finds more than
\* one matching process raises MultipleInstances before any handler runs; the
\* persisted archive is as before except for the history entry console()
\* committed before dispatch
C5_ScanFailureKeepsTablesButRecordsHistory ==
    (front = "console" /\ pc = "done" /\ comm = "download"
     /\ env.versionOK /\ ~env.otherConn /\ env.nprocs > 1) =>
        /\ result = "MultipleInstances" /\ handler = "none"
        /\ persisted.tables = InitialArchive.tables
        /\ persisted.history = Append(InitialArchive.history, Entry)
        /\ other = InitialArchive

\* download users was refused because of a second process
C5_Witness ==
    /\ front = "console" /\ pc = "done" /\ comm = "download" /\ op = "users"
    /\ Len(rest) = 2 /\ env.nprocs = 2 /\ result = "MultipleInstances"
    /\ Len(persisted.history) = Len(InitialArchive.history) + 1

\* C6: with a schema version that is not the program's, init, config,
\* download and every database operation but info, the empty operation and
\* upgrade end with the version error before a handler runs; database info and
\* the empty operation run their handler and only print the mismatch
C6_VersionGate ==
    /\ (front = "console" /\ pc = "done" /\ comm \in DbCommands
        /\ ~env.versionOK /\ ~env.otherConn) =>
           IF comm = "database" /\ op \in {"", "info"}
           THEN handler = "database_info" /\ warned /\ result \in {"ok", "Failure"}
           ELSE IF comm = "database" /\ op = "upgrade"
                THEN handler = "database_upgrade" /\ result # "VersionError"
                ELSE result = "VersionError" /\ handler = "none" /\ warned
    /\ (front = "click" /\ pc = "done" /\ op = "info" /\ ~env.versionOK) =>
           warned /\ result # "VersionError"

\* database info ran to its end on an archive of another version
C6_Witness ==
    /\ front = "console" /\ pc = "done" /\ comm = "database" /\ op = "info"
    /\ ~env.versionOK /\ handler = "database_info" /\ warned /\ result = "ok"

\* the handler got a number of positional arguments its usage does not allow
WrongArgumentCount ==
    CASE handler = "config_cookies" -> Len(rest) \notin {0, 2}
      [] handler = "config_files_folder" -> Len(parse_args(rest).args) > 1
      [] handler = "download_users" -> Len(rest) # 2
      [] handler = "download_update" -> Len(parse_args(rest).args) > 2
      [] handler \in {"download_submissions", "download_journals"} -> Len(rest) = 0
      [] handler \in {"database_add_user", "database_add_submission",
                      "database_add_journal"} -> Len(rest) = 0
      [] handler \in {"database_merge", "database_copy"} -> Len(rest) = 0
      [] OTHER -> FALSE

\* C7: a handler given a wrong number of positional arguments ends with
\* MalformedCommand, and the tables of the archive are as before
C7_WrongCountIsMalformed ==
    (front = "console" /\ pc = "done" /\ handler # "none" /\ WrongArgumentCount) =>
        /\ result = "MalformedCommand"
        /\ persisted.tables = InitialArchive.tables /\ other = InitialArchive

====
